---- MODULE Spec2Model ----
(***************************************************************************)
(* Model of the mcan driver core (h7 chip family, three FDCAN channels):   *)
(* the message RAM partition builder (src/src/message_ram_builder.rs), the *)
(* layout it produces (src/src/message_ram_layout.rs) and the channel and  *)
(* clock ownership manager FdCanInstances (src/src/fdcan.rs).              *)
(***************************************************************************)
EXTENDS Integers, Sequences, FiniteSets, TLC

(***************************************************************************)
(* Program constants.                                                      *)
(***************************************************************************)
FDCAN_MSGRAM_LEN_WORDS == 2560

MAX_ELEMENTS_ElevenBitFilters == 128
MAX_ELEMENTS_TwentyNineBitFilters == 64
MAX_ELEMENTS_RxFifo0 == 64
MAX_ELEMENTS_RxFifo1 == 64
MAX_ELEMENTS_RxBuffers == 64
MAX_ELEMENTS_TxEventFifo == 32
MAX_ELEMENTS_TxBuffers == 32
MAX_ELEMENTS_TriggerMemory == 64

(***************************************************************************)
(* Bounds of the model.                                                    *)
(***************************************************************************)
\* calls of allocate_dedicated_tx_buffer explored in one partition pass
MaxDedicated == 2
\* successful calls of FdCanInstances::new explored
MaxNew == 2

MaxTimeout == 3

MaxPolls == 4

MaxEntries == 2

MaxTxIdx == 2

MaxWakes == 1

(***************************************************************************)
(* Types.                                                                  *)
(***************************************************************************)
None == "None"

FdCanInstance == {"FdCan1", "FdCan2", "FdCan3"}

\* enum DataFieldSize, each variant named by its discriminant (bytes)
DataFieldSize == {8, 12, 16, 20, 24, 32, 48, 64}

\* DataFieldSize::words
words(ds) ==
    CASE ds = 8 -> 2
      [] ds = 12 -> 3
      [] ds = 16 -> 4
      [] ds = 20 -> 5
      [] ds = 24 -> 6
      [] ds = 32 -> 8
      [] ds = 48 -> 12
      [] ds = 64 -> 16

\* MessageRamLayout::default (the trigger memory fields exist on h7)
MessageRamLayout_default ==
    [ eleven_bit_filters_addr |-> 0, eleven_bit_filters_len |-> 0,
      twenty_nine_bit_filters_addr |-> 0, twenty_nine_bit_filters_len |-> 0,
      rx_fifo0_addr |-> 0, rx_fifo0_len |-> 0, rx_fifo0_data_size |-> 8,
      rx_fifo1_addr |-> 0, rx_fifo1_len |-> 0, rx_fifo1_data_size |-> 8,
      rx_buffers_addr |-> 0, rx_buffers_len |-> 0, rx_buffers_data_size |-> 8,
      tx_event_fifo_addr |-> 0, tx_event_fifo_len |-> 0,
      tx_buffers_addr |-> 0, tx_buffers_len |-> 0, tx_fifo_or_queue_len |-> 0,
      tx_buffers_data_size |-> 8,
      trigger_memory_addr |-> 0, trigger_memory_len |-> 0 ]

\* the record of a call that is not an allocation
NoCall ==
    [ op |-> "none", len |-> 0, count |-> 0, mlen |-> 0, max |-> 0,
      words |-> 0, pos |-> 0, instance |-> None, n |-> 0, idx |-> None,
      res |-> "Ok" ]

VARIABLES
    \* MessageRamBuilder<S>
    pos,          \* cursor
    end,          \* capacity bound of the cursor
    layout,       \* the layout under construction
    instance,     \* Option<FdCanInstance> of the current pass
    phantom,      \* the type state S; "Abandoned" once a call consumed the
                  \* builder and returned an error (or panicked)
    \* what the caller holds
    layouts,      \* finalized (instance, layout) pairs, in order of creation
    issued,       \* TxBufferIdx handles returned so far, in order
    dedicated,    \* calls of allocate_dedicated_tx_buffer in the current pass
    data_size,    \* the DataFieldSize the caller passes to every call
    last,         \* the last builder call: arguments and result
    \* the build and the statics
    embassy,      \* whether the crate is built with the "embassy" feature
    STATE_FDCAN,  \* the channels whose StaticCell<State> is initialised
    \* the RCC registers the manager reads and writes
    rcc,
    \* struct FdCanInstances, as held by the caller
    fdcan,        \* fdcan[i]: the slot of channel i, a channel or None
    \* what the caller holds
    news,         \* successful calls of FdCanInstances::new
    builders,     \* initial builders those calls returned
    held,         \* held[c]: the PoweredDown channel values c it holds
    taken,        \* taken[i]: successful take_enabled(i) since the last
                  \* successful put_back(_, i)
    mlast,        \* the last manager call: arguments and result
    \* one FdCan<M> value and the registers of its peripheral
    mode,         \* the type state M of the value
    can,          \* the CCCR, TEST, ENDN and CREL fields the transitions use
    ram,          \* ram[a]: whether message RAM word a reads non-zero
    config,       \* FdCanConfig: the two timeout budgets and the layout
    layout_regs,  \* the layout the start address registers hold
    entries,      \* successful into_config_mode calls so far
    clast,        \* the last transition: arguments, result, register log
    \* one call of util::checked_wait
    wait_in,      \* the values cond returns and the budget
    wait_out,     \* the result and the number of evaluations of cond
    \* one FdCan<M: Transmit> value, its TX registers and message RAM
    txch,         \* its instance and its config.layout
    txregs,       \* the request bits: TXBAR, TXBCR, and TXBRP of the core
    tx_ram,       \* the message RAM word offsets written so far
    tlast,        \* the last transport call: arguments and result
    \* the bit timing of one FdCan<ConfigMode> value
    btr,          \* config.nbtr and config.dbtr
    btp,          \* the fields of the NBTP and DBTP registers
    btlast,       \* the last bit timing setter call: argument and outcome
    \* the interrupt status registers and the wakers of asynchronous.rs
    ir,           \* ir[i]: the flags set in the IR register of instance i
    wakes,        \* wakes[i]: calls of rx_dedicated_waker.wake() of i
    ilast,        \* the last on_interrupt call
    \* the element sizes of a layout and the RXESC register
    ds_layout,    \* the three RX data field sizes of the layout
    rxesc,        \* the RBDS, F0DS and F1DS fields of RXESC
    rxesc_written, \* whether set_layout has written RXESC
    \* two FdCan<M> values and the message RAM their peripherals share
    chmode,       \* chmode[c]: the type state of the value of channel c
    msgram,       \* msgram[a]: whether message RAM word a reads non-zero
    slast,        \* the last call on one of the two: channel and result
    \* one FdCan<ConfigMode> value, its cached configuration and registers
    setmode,      \* the type state of the value
    setcfg,       \* self.config: automatic_retransmit and global_filter
    sethw,        \* the DAR bit of CCCR and the fields of GFC
    given,        \* given[f]: the argument of the last setter call for f
    setlast       \* the last call: a setter or the Config exit

builderVars ==
    << pos, end, layout, instance, phantom, layouts, issued, dedicated,
       data_size, last >>

instancesVars ==
    << embassy, STATE_FDCAN, rcc, fdcan, news, builders, held, taken, mlast >>

channelVars ==
    << mode, can, ram, config, layout_regs, entries, clast >>

waitVars == << wait_in, wait_out >>

transportVars == << txch, txregs, tx_ram, tlast >>

timingVars == << btr, btp, btlast >>

interruptVars == << ir, wakes, ilast >>

sizeVars == << ds_layout, rxesc, rxesc_written >>

sharedVars == << chmode, msgram, slast >>

setterVars == << setmode, setcfg, sethw, given, setlast >>

vars ==
    << builderVars, instancesVars, channelVars, waitVars, transportVars,
       timingVars, interruptVars, sizeVars,
                    sharedVars,
                    setterVars >>

(***************************************************************************)
(* fn message_ram_builder                                                  *)
(***************************************************************************)
message_ram_builder_end == FDCAN_MSGRAM_LEN_WORDS - 4

InitBuilder ==
    /\ pos = 0
    /\ end = message_ram_builder_end
    /\ layout = MessageRamLayout_default
    /\ instance = "FdCan1"
    /\ phantom = "ElevenBitFilters"
    /\ layouts = << >>
    /\ issued = << >>
    /\ dedicated = 0
    /\ data_size \in DataFieldSize
    /\ last = NoCall

(***************************************************************************)
(* macro check_and_advance                                                 *)
(***************************************************************************)
\* new_pos as the u16 expression computes it; the sum cannot reach 2^16
\* for a length that passed the element check
new_pos(len, element_size_words) ==
    (pos + (len * element_size_words * 4)) % 65536

\* the comparison of check_and_advance with the bound scaled to bytes
check_capacity_bytes(len, element_size_words) ==
    new_pos(len, element_size_words) > end * 4

check_capacity(len, element_size_words) ==
    new_pos(len, element_size_words) > end

check_result(max_elements, len, element_size_words) ==
    IF len > max_elements THEN "TooManyElements"
    ELSE IF check_capacity(len, element_size_words) THEN "OutOfMemory"
    ELSE "Ok"

\* The macro inside an allocation method: op is the method, arg the length
\* the caller passed, len the length the macro is given ($len), count the
\* number of elements the call asks the region to hold, dest the region,
\* next the type state of the returned builder, more the layout fields the
\* method sets after the macro.
check_and_advance(op, arg, count, max_elements, len, element_size_words, dest, next, more) ==
    LET res == check_result(max_elements, len, element_size_words)
        call == [ op |-> op, len |-> arg, count |-> count, mlen |-> len,
                  max |-> max_elements, words |-> element_size_words,
                  pos |-> pos, instance |-> instance, n |-> 0,
                  idx |-> None, res |-> res ]
    IN  /\ last' = call
        /\ IF res = "Ok"
           THEN /\ layout' = [ f \in DOMAIN layout |->
                                 IF f = dest \o "_addr" THEN pos
                                 ELSE IF f = dest \o "_len" THEN len
                                 ELSE IF f \in DOMAIN more THEN more[f]
                                 ELSE layout[f] ]
                /\ pos' = new_pos(len, element_size_words)
                /\ phantom' = next
           ELSE /\ phantom' = "Abandoned"
                /\ UNCHANGED << pos, layout >>

NoFields == [ f \in {} |-> 0 ]

\* u8 addition: a sum above 255 panics in a build with overflow checks and
\* wraps in a build without them
u8_add(a, b) ==
    IF a + b > 255
    THEN { [ panic |-> TRUE, val |-> 0 ],
           [ panic |-> FALSE, val |-> (a + b) % 256 ] }
    ELSE { [ panic |-> FALSE, val |-> a + b ] }

(***************************************************************************)
(* impl MessageRamBuilder<ElevenBitFilters>                                *)
(***************************************************************************)
allocate_11bit_filters(len) ==
    /\ phantom = "ElevenBitFilters"
    /\ UNCHANGED << instancesVars, channelVars, waitVars, transportVars,
                    timingVars, interruptVars, sizeVars,
                    sharedVars,
                    setterVars >>
    /\ IF instance = None
       THEN /\ last' = [ NoCall EXCEPT !.op = "allocate_11bit_filters",
                                       !.len = len, !.count = len,
                                       !.mlen = len,
                                       !.max = MAX_ELEMENTS_ElevenBitFilters,
                                       !.words = 1, !.pos = pos,
                                       !.res = "TooManyInstances" ]
            /\ phantom' = "Abandoned"
            /\ UNCHANGED << pos, layout >>
       ELSE check_and_advance("allocate_11bit_filters", len, len,
                              MAX_ELEMENTS_ElevenBitFilters, len, 1,
                              "eleven_bit_filters", "TwentyNineBitFilters",
                              NoFields)
    /\ UNCHANGED << end, instance, layouts, issued, dedicated, data_size >>

(***************************************************************************)
(* impl MessageRamBuilder<TwentyNineBitFilters>                            *)
(***************************************************************************)
allocate_29bit_filters(len) ==
    /\ phantom = "TwentyNineBitFilters"
    /\ UNCHANGED << instancesVars, channelVars, waitVars, transportVars,
                    timingVars, interruptVars, sizeVars,
                    sharedVars,
                    setterVars >>
    /\ check_and_advance("allocate_29bit_filters", len, len,
                         MAX_ELEMENTS_TwentyNineBitFilters, len, 2,
                         "twenty_nine_bit_filters", "RxFifo0", NoFields)
    /\ UNCHANGED << end, instance, layouts, issued, dedicated, data_size >>

(***************************************************************************)
(* impl MessageRamBuilder<RxFifo0>                                         *)
(***************************************************************************)
allocate_rx_fifo0_buffers(len, ds) ==
    /\ phantom = "RxFifo0"
    /\ UNCHANGED << instancesVars, channelVars, waitVars, transportVars,
                    timingVars, interruptVars, sizeVars,
                    sharedVars,
                    setterVars >>
    /\ check_and_advance("allocate_rx_fifo0_buffers", len, len,
                         MAX_ELEMENTS_RxFifo0, len, 2 + words(ds),
                         "rx_fifo0", "RxFifo1",
                         [ rx_fifo0_data_size |-> ds ])
    /\ UNCHANGED << end, instance, layouts, issued, dedicated, data_size >>

(***************************************************************************)
(* impl MessageRamBuilder<RxFifo1>                                         *)
(***************************************************************************)
allocate_rx_fifo1_buffers(len, ds) ==
    /\ phantom = "RxFifo1"
    /\ UNCHANGED << instancesVars, channelVars, waitVars, transportVars,
                    timingVars, interruptVars, sizeVars,
                    sharedVars,
                    setterVars >>
    /\ check_and_advance("allocate_rx_fifo1_buffers", len, len,
                         MAX_ELEMENTS_RxFifo1, len, 2 + words(ds),
                         "rx_fifo1", "RxBuffers",
                         [ rx_fifo1_data_size |-> ds ])
    /\ UNCHANGED << end, instance, layouts, issued, dedicated, data_size >>

(***************************************************************************)
(* impl MessageRamBuilder<RxBuffers>                                       *)
(***************************************************************************)
allocate_rx_buffers(len, ds) ==
    /\ phantom = "RxBuffers"
    /\ UNCHANGED << instancesVars, channelVars, waitVars, transportVars,
                    timingVars, interruptVars, sizeVars,
                    sharedVars,
                    setterVars >>
    /\ check_and_advance("allocate_rx_buffers", len, len,
                         MAX_ELEMENTS_RxBuffers, len, 2 + words(ds),
                         "rx_buffers", "TxEventFifo",
                         [ rx_buffers_data_size |-> ds ])
    /\ UNCHANGED << end, instance, layouts, issued, dedicated, data_size >>

skip_dedicated_buffers ==
    /\ phantom = "RxBuffers"
    /\ UNCHANGED << instancesVars, channelVars, waitVars, transportVars,
                    timingVars, interruptVars, sizeVars,
                    sharedVars,
                    setterVars >>
    /\ phantom' = "TxEventFifo"
    /\ last' = [ NoCall EXCEPT !.op = "skip_dedicated_buffers", !.pos = pos,
                               !.instance = instance ]
    /\ UNCHANGED << pos, end, layout, instance, layouts, issued, dedicated,
                    data_size >>

(***************************************************************************)
(* impl MessageRamBuilder<TxEventFifo>                                     *)
(***************************************************************************)
allocate_tx_event_fifo_buffers(len) ==
    /\ phantom = "TxEventFifo"
    /\ UNCHANGED << instancesVars, channelVars, waitVars, transportVars,
                    timingVars, interruptVars, sizeVars,
                    sharedVars,
                    setterVars >>
    /\ check_and_advance("allocate_tx_event_fifo_buffers", len, len,
                         MAX_ELEMENTS_TxEventFifo, len, 2,
                         "tx_event_fifo", "TxBufferElementSize", NoFields)
    /\ UNCHANGED << end, instance, layouts, issued, dedicated, data_size >>

(***************************************************************************)
(* impl MessageRamBuilder<TxBufferElementSize>                             *)
(***************************************************************************)
tx_buffer_element_size(ds) ==
    /\ phantom = "TxBufferElementSize"
    /\ UNCHANGED << instancesVars, channelVars, waitVars, transportVars,
                    timingVars, interruptVars, sizeVars,
                    sharedVars,
                    setterVars >>
    /\ layout' = [ layout EXCEPT !.tx_buffers_data_size = ds ]
    /\ phantom' = "TxBuffers"
    /\ last' = [ NoCall EXCEPT !.op = "tx_buffer_element_size", !.pos = pos,
                               !.instance = instance ]
    /\ UNCHANGED << pos, end, instance, layouts, issued, dedicated,
                    data_size >>

(***************************************************************************)
(* impl MessageRamBuilder<TxBuffers>                                       *)
(***************************************************************************)
allocate_dedicated_tx_buffer ==
    /\ phantom = "TxBuffers"
    /\ UNCHANGED << instancesVars, channelVars, waitVars, transportVars,
                    timingVars, interruptVars, sizeVars,
                    sharedVars,
                    setterVars >>
    /\ dedicated < MaxDedicated
    /\ LET idx == layout.tx_buffers_len
           len == layout.tx_buffers_len + 1
           ok == ~(len > MAX_ELEMENTS_TxBuffers)
           handle == [ instance |-> instance, idx |-> idx ]
       IN  /\ last' = [ NoCall EXCEPT
                          !.op = "allocate_dedicated_tx_buffer",
                          !.len = 1, !.count = len, !.mlen = len,
                          !.max = MAX_ELEMENTS_TxBuffers,
                          !.pos = pos, !.instance = instance,
                          !.n = dedicated + 1,
                          !.idx = IF ok THEN idx ELSE None,
                          !.res = IF ok THEN "Ok" ELSE "TooManyElements" ]
           /\ layout' = [ layout EXCEPT !.tx_buffers_len = len ]
           /\ phantom' = IF ok THEN "TxBuffers" ELSE "Abandoned"
           /\ issued' = IF ok THEN Append(issued, handle) ELSE issued
    /\ dedicated' = dedicated + 1
    /\ UNCHANGED << pos, end, instance, layouts, data_size >>

allocate_fifo_or_queue(fifo_or_queue_len) ==
    /\ phantom = "TxBuffers"
    /\ UNCHANGED << instancesVars, channelVars, waitVars, transportVars,
                    timingVars, interruptVars, sizeVars,
                    sharedVars,
                    setterVars >>
    /\ \E sum \in u8_add(fifo_or_queue_len, layout.tx_buffers_len) :
         IF sum.panic
         THEN /\ last' = [ NoCall EXCEPT
                             !.op = "allocate_fifo_or_queue",
                             !.len = fifo_or_queue_len,
                             !.count = fifo_or_queue_len
                                         + layout.tx_buffers_len,
                             !.mlen = fifo_or_queue_len
                                        + layout.tx_buffers_len,
                             !.max = MAX_ELEMENTS_TxBuffers,
                             !.words =
                                 2 + words(layout.tx_buffers_data_size),
                             !.pos = pos, !.instance = instance,
                             !.res = "Panic" ]
              /\ phantom' = "Abandoned"
              /\ UNCHANGED << pos, layout >>
         ELSE check_and_advance(
                  "allocate_fifo_or_queue", fifo_or_queue_len,
                  fifo_or_queue_len + layout.tx_buffers_len,
                  MAX_ELEMENTS_TxBuffers, sum.val,
                  2 + words(layout.tx_buffers_data_size),
                  "tx_buffers", "TriggerMemory",
                  [ tx_fifo_or_queue_len |-> fifo_or_queue_len ])
    /\ UNCHANGED << end, instance, layouts, issued, dedicated, data_size >>

(***************************************************************************)
(* impl MessageRamBuilder<TriggerMemory>                                   *)
(***************************************************************************)
\* the match of allocate_triggers with a last arm that starts over
next_instance_wrap(i) ==
    CASE i = "FdCan1" -> "FdCan2"
      [] i = "FdCan2" -> "FdCan3"
      [] i = "FdCan3" -> "FdCan1"

next_instance(i) ==
    CASE i = "FdCan1" -> "FdCan2"
      [] i = "FdCan2" -> "FdCan3"
      [] i = "FdCan3" -> None

allocate_triggers(len) ==
    /\ phantom = "TriggerMemory"
    /\ UNCHANGED << instancesVars, channelVars, waitVars, transportVars,
                    timingVars, interruptVars, sizeVars,
                    sharedVars,
                    setterVars >>
    /\ check_and_advance("allocate_triggers", len, len,
                         MAX_ELEMENTS_TriggerMemory, len, 2,
                         "trigger_memory", "ElevenBitFilters", NoFields)
    /\ IF last'.res = "Ok"
       THEN /\ layouts' = Append(layouts,
                                 [ instance |-> instance, layout |-> layout' ])
            /\ instance' = next_instance(instance)
            /\ dedicated' = 0
       ELSE UNCHANGED << layouts, instance, dedicated >>
    /\ UNCHANGED << end, issued, data_size >>

(***************************************************************************)
(* FdCanInstances: the channel and clock ownership manager.                *)
(***************************************************************************)
CLOCK_DOMAIN_SYNCHRONIZATION_DELAY == 100

\* a FdCan<PoweredDownMode> value: its instance field, and the call of
\* FdCanInstances::new that created it
Channels == [ instance : FdCanInstance, origin : 1..MaxNew ]

\* Option::None in a slot of FdCanInstances
NoChannel == [ instance |-> None, origin |-> 0 ]

\* enum Fdcansel of the h7 RCC
Fdcansel == {"HSE", "PLL1_Q", "PLL2_Q", "_RESERVED_3"}

NoManagerCall ==
    [ op |-> "none", instance |-> None, res |-> "Ok", writes |-> << >>,
      all_present |-> FALSE, slot_empty |-> FALSE, is_enabled |-> FALSE,
      news |-> 0 ]

\* the register writes of a call, applied in order to the RCC
RECURSIVE rcc_apply(_, _)
rcc_apply(r, writes) ==
    IF writes = << >> THEN r
    ELSE LET w == Head(writes)
         IN  rcc_apply(IF w.reg = "delay" THEN r
                       ELSE [ r EXCEPT ![w.reg] = w.val ],
                       Tail(writes))

all_present == \A i \in FdCanInstance : fdcan[i] # NoChannel

\* FdCanInstances::empty
empty == [ i \in FdCanInstance |-> NoChannel ]

\* the caller replaces its manager by FdCanInstances::empty(); the manager
\* it had is dropped with the channels left in it
empty_manager ==
    /\ news > 0
    /\ UNCHANGED << builderVars, channelVars, waitVars, transportVars,
                    timingVars, interruptVars, sizeVars,
                    sharedVars,
                    setterVars >>
    /\ mlast' = [ NoManagerCall EXCEPT !.op = "empty",
                                       !.all_present = all_present,
                                       !.news = news ]
    /\ fdcan' = empty
    /\ taken' = [ i \in FdCanInstance |-> 0 ]
    /\ UNCHANGED << embassy, STATE_FDCAN, rcc, news, builders, held >>

\* the three FdCan values FdCanInstances::new builds
new_fdcan(origin) ==
    [ i \in FdCanInstance |-> [ instance |-> i, origin |-> origin ] ]

\* embassy::state_fdcan1, state_fdcan2, state_fdcan3 in the order new calls
\* them: StaticCell::try_init fails on an initialised cell
state_fdcan_order == << "FdCan1", "FdCan2", "FdCan3" >>

state_fdcan_failing ==
    { k \in 1..Len(state_fdcan_order) : state_fdcan_order[k] \in STATE_FDCAN }

state_fdcan_result ==
    IF embassy /\ state_fdcan_failing # {} THEN "PeripheralTaken" ELSE "Ok"

state_fdcan_cells ==
    IF ~embassy THEN STATE_FDCAN
    ELSE STATE_FDCAN \cup
           { state_fdcan_order[k] : k \in
               { n \in 1..Len(state_fdcan_order) :
                   \A m \in state_fdcan_failing : n < m } }

\* FdCanInstances::new
new ==
    /\ news < MaxNew
    /\ UNCHANGED << builderVars, channelVars, waitVars, transportVars,
                    timingVars, interruptVars, sizeVars,
                    sharedVars,
                    setterVars >>
    /\ LET res == state_fdcan_result
           writes == IF res = "Ok"
                     THEN << [ reg |-> "fdcanen", val |-> FALSE ] >>
                     ELSE << >>
       IN  /\ mlast' = [ NoManagerCall EXCEPT !.op = "new", !.res = res,
                                              !.writes = writes,
                                              !.news = news ]
           /\ STATE_FDCAN' = state_fdcan_cells
           /\ rcc' = rcc_apply(rcc, writes)
           /\ IF res = "Ok"
              THEN /\ fdcan' = new_fdcan(news + 1)
                   /\ news' = news + 1
                   /\ builders' = builders + 1
                   /\ taken' = [ i \in FdCanInstance |-> 0 ]
              ELSE UNCHANGED << fdcan, news, builders, taken >>
    /\ UNCHANGED << embassy, held >>

\* the match on the clock mux in enable_reset
clock_source_running ==
    CASE rcc.fdcansel = "HSE" -> rcc.hseon
      [] rcc.fdcansel = "PLL1_Q" -> rcc.divqen0
      [] rcc.fdcansel = "PLL2_Q" -> rcc.divqen1
      [] rcc.fdcansel = "_RESERVED_3" -> FALSE

\* an enable_reset that skips the match on the clock mux
enable_reset_result_any_source ==
    IF ~all_present THEN "MissingInstance" ELSE "Ok"

\* FdCanInstances::enable_reset (h7)
enable_reset_result ==
    IF ~all_present THEN "MissingInstance"
    ELSE IF ~clock_source_running THEN "ClockSourceIsDisabled"
    ELSE "Ok"

\* an enable_reset that enables the clock before it asserts the reset
enable_reset_writes_enable_first ==
    << [ reg |-> "fdcanen", val |-> TRUE ],
       [ reg |-> "fdcanrst", val |-> TRUE ],
       [ reg |-> "delay", val |-> CLOCK_DOMAIN_SYNCHRONIZATION_DELAY ],
       [ reg |-> "fdcanrst", val |-> FALSE ] >>

\* the register writes and the delay of enable_reset, after its checks
enable_reset_writes ==
    << [ reg |-> "fdcanrst", val |-> TRUE ],
       [ reg |-> "fdcanen", val |-> TRUE ],
       [ reg |-> "delay", val |-> CLOCK_DOMAIN_SYNCHRONIZATION_DELAY ],
       [ reg |-> "fdcanrst", val |-> FALSE ] >>

\* a take that leaves the slot as it was
slot_after_take_keep(slot) == slot

\* Option::take leaves None in the slot
slot_after_take(slot) == NoChannel

\* FdCanInstances::take_enabled
take_enabled(i) ==
    /\ news > 0
    /\ UNCHANGED << builderVars, channelVars, waitVars, transportVars,
                    timingVars, interruptVars, sizeVars,
                    sharedVars,
                    setterVars >>
    /\ LET is_enabled == rcc.fdcanen
           enabling == IF is_enabled THEN "Ok" ELSE enable_reset_result
           writes == IF ~is_enabled /\ enabling = "Ok"
                     THEN enable_reset_writes ELSE << >>
           res == IF enabling # "Ok" THEN enabling
                  ELSE IF fdcan[i] = NoChannel THEN "PeripheralTaken"
                  ELSE "Ok"
       IN  /\ mlast' = [ NoManagerCall EXCEPT
                           !.op = "take_enabled", !.instance = i,
                           !.res = res, !.writes = writes,
                           !.all_present = all_present,
                           !.slot_empty = (fdcan[i] = NoChannel),
                           !.is_enabled = is_enabled,
                           !.news = news ]
           /\ rcc' = rcc_apply(rcc, writes)
           /\ IF res = "Ok"
              THEN /\ fdcan' = [ fdcan EXCEPT ![i] = slot_after_take(@) ]
                   /\ held' = [ held EXCEPT ![fdcan[i]] = @ + 1 ]
                   /\ taken' = [ taken EXCEPT ![i] = @ + 1 ]
              ELSE UNCHANGED << fdcan, held, taken >>
    /\ UNCHANGED << embassy, STATE_FDCAN, news, builders >>

\* a disable that skips the all_present check
disable_result_unchecked == "Ok"

\* FdCanInstances::disable
disable_result == IF ~all_present THEN "MissingInstance" ELSE "Ok"

\* a disable that returns Ok without the register write
disable_writes_none == << >>

\* the register write of disable
disable_writes == << [ reg |-> "fdcanen", val |-> FALSE ] >>

disable ==
    /\ news > 0
    /\ UNCHANGED << builderVars, channelVars, waitVars, transportVars,
                    timingVars, interruptVars, sizeVars,
                    sharedVars,
                    setterVars >>
    /\ LET res == disable_result
           writes == IF res = "Ok" THEN disable_writes ELSE << >>
       IN  /\ mlast' = [ NoManagerCall EXCEPT
                           !.op = "disable", !.res = res,
                           !.writes = writes,
                           !.all_present = all_present,
                           !.is_enabled = rcc.fdcanen, !.news = news ]
           /\ rcc' = rcc_apply(rcc, writes)
    /\ UNCHANGED << embassy, STATE_FDCAN, fdcan, news, builders, held,
                    taken >>

\* a put_back that overwrites an occupied slot
put_back_result_overwrite(i) == "Ok"

\* the is_some check of put_back
put_back_result(i) ==
    IF fdcan[i] # NoChannel THEN "WrongInstance" ELSE "Ok"

\* FdCanInstances::put_back: the channel value is moved into the call; it
\* is stored in the slot, or dropped with the error
put_back(channel, i) ==
    /\ news > 0
    /\ UNCHANGED << builderVars, channelVars, waitVars, transportVars,
                    timingVars, interruptVars, sizeVars,
                    sharedVars,
                    setterVars >>
    /\ held[channel] > 0
    /\ LET res == put_back_result(i)
       IN  /\ mlast' = [ NoManagerCall EXCEPT
                           !.op = "put_back", !.instance = i, !.res = res,
                           !.all_present = all_present,
                           !.slot_empty = (fdcan[i] = NoChannel),
                           !.news = news ]
           /\ held' = [ held EXCEPT ![channel] = @ - 1 ]
           /\ IF res = "Ok"
              THEN /\ fdcan' = [ fdcan EXCEPT ![i] = channel ]
                   /\ taken' = [ taken EXCEPT ![i] = 0 ]
              ELSE UNCHANGED << fdcan, taken >>
    /\ UNCHANGED << embassy, STATE_FDCAN, rcc, news, builders >>

\* the RCC as the clock tree configuration left it
RccStates ==
    [ fdcanen : BOOLEAN, fdcanrst : {FALSE}, fdcansel : Fdcansel,
      hseon : BOOLEAN, divqen0 : BOOLEAN, divqen1 : BOOLEAN ]

\* before the first call of FdCanInstances::new
InitBoot ==
    /\ embassy \in BOOLEAN
    /\ STATE_FDCAN = {}
    /\ rcc \in RccStates
    /\ fdcan = empty
    /\ news = 0
    /\ builders = 0
    /\ held = [ c \in Channels |-> 0 ]
    /\ taken = [ i \in FdCanInstance |-> 0 ]
    /\ mlast = NoManagerCall

\* right after the first call of FdCanInstances::new
InitInstances ==
    /\ embassy \in BOOLEAN
    /\ STATE_FDCAN = IF embassy THEN FdCanInstance ELSE {}
    /\ rcc \in { r \in RccStates : ~r.fdcanen }
    /\ fdcan = new_fdcan(1)
    /\ news = 1
    /\ builders = 1
    /\ held = [ c \in Channels |-> 0 ]
    /\ taken = [ i \in FdCanInstance |-> 0 ]
    /\ mlast = [ NoManagerCall EXCEPT
                   !.op = "new",
                   !.writes = << [ reg |-> "fdcanen", val |-> FALSE ] >> ]

(***************************************************************************)
(* util::checked_wait.  f is the sequence of values the closure returns at *)
(* its successive evaluations; its last value repeats for ever.            *)
(***************************************************************************)
PollValues(n) ==
    UNION { [ 1..k -> BOOLEAN ] : k \in 1..n }

cond_at(f, k) == IF k <= Len(f) THEN f[k] ELSE f[Len(f)]

\* a comparison that lets one more iteration pass
timed_out_late(elapsed, timeout_iterations) == elapsed > timeout_iterations

\* if elapsed >= timeout_iterations
timed_out(elapsed, timeout_iterations) == elapsed >= timeout_iterations

\* the while loop, entered with elapsed evaluations that returned true
RECURSIVE checked_wait_loop(_, _, _)
checked_wait_loop(f, timeout_iterations, elapsed) ==
    IF cond_at(f, elapsed + 1)
    THEN IF timed_out(elapsed + 1, timeout_iterations)
         THEN [ res |-> "Timeout", evals |-> elapsed + 1 ]
         ELSE checked_wait_loop(f, timeout_iterations, elapsed + 1)
    ELSE [ res |-> "Ok", evals |-> elapsed + 1 ]

checked_wait(f, timeout_iterations) ==
    checked_wait_loop(f, timeout_iterations, 0)

NoWait == [ res |-> "none", evals |-> 0 ]

\* one call of checked_wait with the inputs drawn at the start
call_checked_wait ==
    /\ wait_out = NoWait
    /\ wait_out' = checked_wait(wait_in.f, wait_in.timeout_iterations)
    /\ UNCHANGED << wait_in, builderVars, instancesVars, channelVars,
                    transportVars,
                    timingVars, interruptVars, sizeVars,
                    sharedVars,
                    setterVars >>

InitWait ==
    /\ wait_in \in [ f : PollValues(MaxPolls),
                     timeout_iterations : 0..MaxTimeout ]
    /\ wait_out = NoWait

WaitIdle ==
    /\ wait_in = [ f |-> << FALSE >>, timeout_iterations |-> 0 ]
    /\ wait_out = NoWait

(***************************************************************************)
(* FdCan<M>: the mode transitions of one channel.  A transition is its     *)
(* result and the log of its register accesses in program order; the       *)
(* registers and the message RAM after it are the log applied to them.     *)
(***************************************************************************)
\* the value of ENDN, as its hexadecimal digits
ENDN_SENTINEL == "87654321"

CREL_REL == 3

OperatingModes ==
    { "InternalLoopbackMode", "ExternalLoopbackMode",
      "RestrictedOperationMode", "NormalOperationMode",
      "BusMonitoringMode", "TestMode" }

\* what the hardware answers to a poll: at once, at the second or third
\* read, or never
PollBehaviours ==
    { << FALSE >>, << TRUE, FALSE >>, << TRUE, TRUE, FALSE >>, << TRUE >> }

\* a loop that stops one word short
zero_msg_ram_words_short == 0..(FDCAN_MSGRAM_LEN_WORDS - 2)

\* the message RAM words of zero_msg_ram
zero_msg_ram_words == 0..(FDCAN_MSGRAM_LEN_WORDS - 1)

\* the words of the message RAM the model follows: the first and the last
RamSample == { 0, FDCAN_MSGRAM_LEN_WORDS - 1 }

\* a layout other than the default one
some_layout ==
    [ MessageRamLayout_default EXCEPT !.eleven_bit_filters_len = 1,
                                      !.twenty_nine_bit_filters_addr = 4,
                                      !.twenty_nine_bit_filters_len = 1 ]

Write(reg, val) ==
    [ ev |-> "write", reg |-> reg, val |-> val, ok |-> TRUE, n |-> 0,
      budget |-> 0 ]

\* a checked_wait on a field: val is the value the last read returned
Poll(reg, val, w, timeout_iterations) ==
    [ ev |-> "poll", reg |-> reg, val |-> val, ok |-> (w.res = "Ok"),
      n |-> w.evals, budget |-> timeout_iterations ]

Zero ==
    [ ev |-> "zero", reg |-> "msgram", val |-> FALSE, ok |-> TRUE,
      n |-> Cardinality(zero_msg_ram_words), budget |-> 0 ]

\* a configuration register rewritten from the cached FdCanConfig
Config(reg) ==
    [ ev |-> "config", reg |-> reg, val |-> FALSE, ok |-> TRUE, n |-> 0,
      budget |-> 0 ]

\* FdCan<ConfigMode>::apply_config: the setters it calls, in its order
ApplyConfig ==
    << Config("dbtp"), Config("nbtp"), Config("cccr.dar"),
       Config("cccr.txp"), Config("cccr.fdoe_bse"), Config("ils"),
       Config("cccr.niso"), Config("cccr.efbi"), Config("cccr.pxhd"),
       Config("gfc"), Config("layout") >>

Done(res, log) == [ res |-> res, log |-> log ]

\* a ? b: b runs only when a returned Ok
Then(a, b) ==
    IF a.res # "Ok" THEN a ELSE Done(b.res, a.log \o b.log)

RECURSIVE can_apply(_, _)
can_apply(c, log) ==
    IF log = << >> THEN c
    ELSE LET e == Head(log)
         IN  can_apply(IF e.ev \in {"write", "poll"}
                       THEN [ c EXCEPT ![e.reg] = e.val ]
                       ELSE c,
                       Tail(log))

ram_apply(r, log) ==
    IF \E k \in 1..Len(log) : log[k].ev = "zero"
    THEN [ a \in DOMAIN r |-> IF a \in zero_msg_ram_words THEN FALSE
                              ELSE r[a] ]
    ELSE r

layout_apply(l, log) ==
    IF \E k \in 1..Len(log) : log[k] = Config("layout")
    THEN config.layout
    ELSE l

\* check_core with the two checks in the other order
check_core_rel_first ==
    IF can.crel # CREL_REL THEN Done("UnsupportedCoreVersion", << >>)
    ELSE IF can.endn # ENDN_SENTINEL
    THEN Done("CoreCommunicationFailed", << >>)
    ELSE Done("Ok", << >>)

\* FdCan::check_core
check_core ==
    IF can.endn # ENDN_SENTINEL THEN Done("CoreCommunicationFailed", << >>)
    ELSE IF can.crel # CREL_REL THEN Done("UnsupportedCoreVersion", << >>)
    ELSE Done("Ok", << >>)

\* FdCan::set_power_down_mode: waits while csa != enabled
set_power_down_mode(enabled, f) ==
    LET w == checked_wait(f, config.timeout_iterations_long)
    IN  Done(w.res,
             << Write("csr", enabled),
                Poll("csa", IF w.res = "Ok" THEN enabled ELSE ~enabled, w,
                     config.timeout_iterations_long) >>)

\* FdCan::enter_init_mode: waits while !init
enter_init_mode(f) ==
    LET w == checked_wait(f, config.timeout_iterations_short)
    IN  Done(w.res,
             << Write("init", TRUE),
                Poll("init", w.res = "Ok", w,
                     config.timeout_iterations_short) >>
             \o (IF w.res = "Ok" THEN << Write("cce", TRUE) >> ELSE << >>))

\* FdCan::zero_msg_ram
zero_msg_ram == Done("Ok", << Zero >>)

\* FdCan<PoweredDownMode>::try_config_mode
try_config_mode(f_csa, f_init) ==
    Then(check_core,
         Then(set_power_down_mode(FALSE, f_csa),
              Then(enter_init_mode(f_init), zero_msg_ram)))

\* a leave_init_mode that polls with the long budget
leave_init_budget_long == config.timeout_iterations_long

\* the budget of the poll of leave_init_mode
leave_init_budget == config.timeout_iterations_short

\* the configuration rewritten after the write enable bit was cleared
leave_init_writes_cce_first ==
    << Write("cce", FALSE) >> \o ApplyConfig \o << Write("init", FALSE) >>

\* leave_init_mode: apply_config(self.config), then CCE and INIT cleared
leave_init_writes ==
    ApplyConfig \o << Write("cce", FALSE), Write("init", FALSE) >>

\* FdCan<ConfigMode>::leave_init_mode: waits while init
leave_init_mode(f) ==
    LET w == checked_wait(f, leave_init_budget)
    IN  Done(w.res,
             leave_init_writes
               \o << Poll("init", w.res # "Ok", w, leave_init_budget) >>)

\* FdCan::set_loopback_mode
set_loopback_mode(loopback) ==
    LET bits == CASE loopback = "None" -> << FALSE, FALSE, FALSE >>
                  [] loopback = "Internal" -> << TRUE, TRUE, TRUE >>
                  [] loopback = "External" -> << TRUE, FALSE, TRUE >>
    IN  << Write("test", bits[1]), Write("mon", bits[2]),
           Write("lbck", bits[3]) >>

NoTransition ==
    [ op |-> "none", from |-> "PoweredDownMode", res |-> "Ok",
      log |-> << >>, f |-> << FALSE >> ]

\* a transition that consumes the value: r is what its body did, f the
\* behaviour of the INIT poll, ok_mode and err_mode the type states of the
\* value it returns with Ok and with the error
transition(op, r, f, ok_mode, err_mode) ==
    /\ clast' = [ op |-> op, from |-> mode, res |-> r.res, log |-> r.log,
                  f |-> f ]
    /\ can' = can_apply(can, r.log)
    /\ ram' = ram_apply(ram, r.log)
    /\ layout_regs' = layout_apply(layout_regs, r.log)
    /\ mode' = IF r.res = "Ok" THEN ok_mode ELSE err_mode
    /\ UNCHANGED << config, builderVars, instancesVars, waitVars,
                    transportVars,
                    timingVars, interruptVars, sizeVars,
                    sharedVars,
                    setterVars >>

\* FdCan<PoweredDownMode>::into_config_mode
into_config_mode(f_csa, f_init) ==
    /\ mode = "PoweredDownMode"
    /\ entries < MaxEntries
    /\ LET r == try_config_mode(f_csa, f_init)
       IN  /\ transition("into_config_mode", r, f_init, "ConfigMode",
                         "PoweredDownMode")
           /\ entries' = IF r.res = "Ok" THEN entries + 1 ELSE entries

\* the body of a Config-exit transition to an operating mode: the mode
\* bits, then leave_init_mode
config_exit(bits, f) ==
    LET l == leave_init_mode(f)
    IN  Done(l.res, bits \o l.log)

\* FdCan<ConfigMode>::into_internal_loopback
into_internal_loopback(f) ==
    /\ mode = "ConfigMode"
    /\ transition("into_internal_loopback",
                  config_exit(set_loopback_mode("Internal"), f),
                  f, "InternalLoopbackMode", "ConfigMode")
    /\ UNCHANGED entries

\* FdCan<ConfigMode>::into_external_loopback
into_external_loopback(f) ==
    /\ mode = "ConfigMode"
    /\ transition("into_external_loopback",
                  config_exit(set_loopback_mode("External"), f),
                  f, "ExternalLoopbackMode", "ConfigMode")
    /\ UNCHANGED entries

\* FdCan<ConfigMode>::into_restricted
into_restricted(f) ==
    /\ mode = "ConfigMode"
    /\ transition("into_restricted",
                  config_exit(<< Write("asm", TRUE) >>, f),
                  f, "RestrictedOperationMode", "ConfigMode")
    /\ UNCHANGED entries

\* FdCan<ConfigMode>::into_normal
into_normal(f) ==
    /\ mode = "ConfigMode"
    /\ transition("into_normal",
                  config_exit(set_loopback_mode("None"), f),
                  f, "NormalOperationMode", "ConfigMode")
    /\ UNCHANGED entries

\* FdCan<ConfigMode>::into_bus_monitoring
into_bus_monitoring(f) ==
    /\ mode = "ConfigMode"
    /\ transition("into_bus_monitoring",
                  config_exit(<< Write("mon", TRUE) >>, f),
                  f, "BusMonitoringMode", "ConfigMode")
    /\ UNCHANGED entries

\* FdCan<ConfigMode>::into_test_mode
into_test_mode(f) ==
    /\ mode = "ConfigMode"
    /\ transition("into_test_mode",
                  config_exit(<< Write("test", TRUE) >>, f),
                  f, "TestMode", "ConfigMode")
    /\ UNCHANGED entries

\* an into_powered_down that hands the value back as it was on an error
into_powered_down_err_self(f_csa, f_init) ==
    /\ mode = "ConfigMode"
    /\ transition("into_powered_down",
                  Then(set_power_down_mode(TRUE, f_csa),
                       leave_init_mode(f_init)),
                  f_init, "PoweredDownMode", "ConfigMode")
    /\ UNCHANGED entries

\* FdCan<ConfigMode>::into_powered_down: the value comes back tagged
\* PoweredDownMode with Ok and with the error alike
into_powered_down(f_csa, f_init) ==
    /\ mode = "ConfigMode"
    /\ transition("into_powered_down",
                  Then(set_power_down_mode(TRUE, f_csa),
                       leave_init_mode(f_init)),
                  f_init, "PoweredDownMode", "PoweredDownMode")
    /\ UNCHANGED entries

\* FdCan<ConfigMode>::set_layout
set_layout(l) ==
    /\ mode = "ConfigMode"
    /\ config' = [ config EXCEPT !.layout = l ]
    /\ layout_regs' = l
    /\ clast' = [ NoTransition EXCEPT !.op = "set_layout", !.from = mode ]
    /\ UNCHANGED << mode, can, ram, entries, builderVars, instancesVars,
                    waitVars, transportVars,
                    timingVars, interruptVars, sizeVars,
                    sharedVars,
                    setterVars >>

\* a word of the shared message RAM is written with a non-zero value, by
\* this channel or by another one
write_tx_buffer_word(a) ==
    /\ ~ram[a]
    /\ ram' = [ ram EXCEPT ![a] = TRUE ]
    /\ clast' = [ NoTransition EXCEPT !.op = "write_tx_buffer_word",
                                      !.from = mode ]
    /\ UNCHANGED << mode, can, config, layout_regs, entries, builderVars,
                    instancesVars, waitVars, transportVars,
                    timingVars, interruptVars, sizeVars,
                    sharedVars,
                    setterVars >>

\* a channel as FdCanInstances::new makes it; the register fields are as
\* the hardware left them, the message RAM holds anything
InitChannel ==
    /\ mode = "PoweredDownMode"
    /\ can \in [ csr : BOOLEAN, csa : BOOLEAN, init : BOOLEAN,
                 cce : {FALSE}, test : {FALSE}, mon : {FALSE},
                 asm : {FALSE}, lbck : {FALSE},
                 endn : {ENDN_SENTINEL, "21436587"}, crel : {CREL_REL, CREL_REL - 1} ]
    /\ ram \in [ RamSample -> BOOLEAN ]
    /\ config \in [ timeout_iterations_long : {MaxTimeout - 1, MaxTimeout},
                    timeout_iterations_short : 0..(MaxTimeout - 1),
                    layout : {MessageRamLayout_default} ]
    /\ layout_regs = MessageRamLayout_default
    /\ entries = 0
    /\ clast = NoTransition

\* the channel while another component is driven
ChannelIdle ==
    /\ mode = "PoweredDownMode"
    /\ can = [ csr |-> TRUE, csa |-> TRUE, init |-> TRUE, cce |-> FALSE,
               test |-> FALSE, mon |-> FALSE, asm |-> FALSE,
               lbck |-> FALSE, endn |-> ENDN_SENTINEL, crel |-> CREL_REL ]
    /\ ram = [ a \in RamSample |-> FALSE ]
    /\ config = [ timeout_iterations_long |-> MaxTimeout,
                  timeout_iterations_short |-> MaxTimeout - 1,
                  layout |-> MessageRamLayout_default ]
    /\ layout_regs = MessageRamLayout_default
    /\ entries = 0
    /\ clast = NoTransition

(***************************************************************************)
(* Frame transport on a channel in a mode that implements Transmit         *)
(* (tx_rx.rs, message_ram_layout.rs).                                      *)
(***************************************************************************)

\* TxBufferIdx values, issued for any instance
TxBufferIdx == [ instance : FdCanInstance, idx : 0..MaxTxIdx ]

\* data.len() of the payloads handed to write_tx_buffer_pend
PayloadLens == { 3, 8, 10, 12 }

\* the payload lengths for which Dlc::from_len returns Some
DlcLens == { 0, 1, 2, 3, 4, 5, 6, 7, 8, 12, 16, 20, 24, 32, 48, 64 }

\* Dlc::from_len followed by Dlc::len; -1 stands for Option::None
Dlc_from_len(len) == IF len \in DlcLens THEN len ELSE -1

\* DataFieldSize::max_len
max_len(ds) == ds

\* the sequences of values read from TXBCF.cf(idx) by the poll of abort
CfBehaviours == { << FALSE >>, << TRUE >>, << FALSE, TRUE >> }

\* the range check made before the instance check
tx_buffer_result_range_first(idx) ==
    IF txch.layout.tx_buffers_len = 0
         \/ idx.idx >= txch.layout.tx_buffers_len
    THEN "TxBufferIndexOutOfRange"
    ELSE IF idx.instance # txch.instance THEN "WrongInstance"
    ELSE "Ok"

\* MessageRam::tx_buffer: the checks
tx_buffer_result(idx) ==
    IF idx.instance # txch.instance THEN "WrongInstance"
    ELSE IF txch.layout.tx_buffers_len = 0
              \/ idx.idx >= txch.layout.tx_buffers_len
    THEN "TxBufferIndexOutOfRange"
    ELSE "Ok"

\* MessageRam::tx_buffer: the word offset of t0
tx_buffer_offset(idx) == txch.layout.tx_buffers_addr + idx.idx

\* MessageRam::tx_buffer: the length of the data slice, in words
tx_buffer_data_len == words(txch.layout.tx_buffers_data_size)

\* the number of chunks of data.chunks(4)
chunks(len) == (len + 3) \div 4

\* the result of write_tx_buffer_pend
write_tx_buffer_pend_result(idx, len) ==
    IF tx_buffer_result(idx) # "Ok" THEN tx_buffer_result(idx)
    ELSE IF Dlc_from_len(len) = -1 THEN "WrongDataSize"
    ELSE IF Dlc_from_len(len) > max_len(txch.layout.tx_buffers_data_size)
    THEN "WrongDataSize"
    ELSE "Ok"

\* the word offsets written by fill (t0, t1) and by the loop over the data
\* slice, which stops at the shorter of the slice and the chunks
write_tx_buffer_pend_words(idx, len) ==
    LET offset == tx_buffer_offset(idx)
        n == IF chunks(len) <= tx_buffer_data_len THEN chunks(len)
             ELSE tx_buffer_data_len
    IN  { offset, offset + 1 } \cup { offset + 2 + k : k \in 0..(n - 1) }

\* fill and the data loop placed before the data length checks
writes_reached_before_dlc(idx, len) == tx_buffer_result(idx) = "Ok"

\* write_tx_buffer_pend: fill, the data loop and the TXBAR write are reached
\* when no check returned
writes_reached(idx, len) == write_tx_buffer_pend_result(idx, len) = "Ok"

NoTransportCall ==
    [ op |-> "none", idx |-> [ instance |-> "FdCan1", idx |-> 0 ],
      len |-> 0, res |-> "Ok", val |-> FALSE, evals |-> 0 ]

\* FdCan<M: Transmit>::write_tx_buffer_pend; the core sets the request
\* pending bit of a buffer when its add-request bit is written and resets
\* the buffer's transmission-occurred and cancellation-finished bits
write_tx_buffer_pend(idx, len) ==
    LET res == write_tx_buffer_pend_result(idx, len)
    IN  /\ tlast' = [ NoTransportCall EXCEPT !.op = "write_tx_buffer_pend",
                                             !.idx = idx, !.len = len,
                                             !.res = res ]
        /\ IF writes_reached(idx, len)
           THEN /\ tx_ram' = tx_ram \cup write_tx_buffer_pend_words(idx, len)
                /\ txregs' = [ txregs EXCEPT !.txbar = @ \cup {idx.idx},
                                             !.txbrp = @ \cup {idx.idx},
                                             !.txbto = @ \ {idx.idx},
                                             !.txbcf = @ \ {idx.idx} ]
           ELSE UNCHANGED << tx_ram, txregs >>
        /\ UNCHANGED << txch, builderVars, instancesVars, channelVars,
                        waitVars,
                    timingVars, interruptVars, sizeVars,
                    sharedVars,
                    setterVars >>

\* FdCan<M: Transmit>::has_pending_frame
has_pending_frame(idx) == idx.idx \in txregs.txbrp

\* FdCan<M: Transmit>::abort; f is what the poll reads from TXBCF.cf(idx),
\* sent tells whether the core transmitted the frame before it finished
\* the cancellation
abort(idx, f, sent) ==
    IF idx.instance # txch.instance
    THEN /\ ~sent
         /\ f = << FALSE >>
         /\ tlast' = [ NoTransportCall EXCEPT !.op = "abort", !.idx = idx,
                                              !.res = "WrongInstance" ]
         /\ UNCHANGED << txch, txregs, tx_ram, builderVars, instancesVars,
                         channelVars, waitVars,
                    timingVars, interruptVars, sizeVars,
                    sharedVars,
                    setterVars >>
    ELSE IF has_pending_frame(idx)
    THEN LET w == checked_wait(f, txch.timeout_iterations_long)
             finished == \E k \in 1..w.evals : cond_at(f, k)
             to == IF finished /\ sent THEN txregs.txbto \cup {idx.idx}
                   ELSE txregs.txbto
         IN  /\ idx.idx \in txregs.txbcf => f[1]
             /\ sent => finished
             /\ txregs' =
                  [ txregs EXCEPT
                      !.txbcr = IF finished THEN @ \ {idx.idx}
                                ELSE @ \cup {idx.idx},
                      !.txbcf = IF finished THEN @ \cup {idx.idx} ELSE @,
                      !.txbrp = IF finished THEN @ \ {idx.idx} ELSE @,
                      !.txbar = IF finished THEN @ \ {idx.idx} ELSE @,
                      !.txbto = to ]
             /\ tlast' = [ NoTransportCall EXCEPT
                             !.op = "abort", !.idx = idx, !.res = w.res,
                             !.val = (w.res = "Ok" /\ idx.idx \notin to),
                             !.evals = w.evals ]
             /\ UNCHANGED << txch, tx_ram, builderVars, instancesVars,
                             channelVars, waitVars,
                    timingVars, interruptVars, sizeVars,
                    sharedVars,
                    setterVars >>
    ELSE /\ ~sent
         /\ f = << FALSE >>
         /\ tlast' = [ NoTransportCall EXCEPT !.op = "abort", !.idx = idx ]
         /\ UNCHANGED << txch, txregs, tx_ram, builderVars, instancesVars,
                         channelVars, waitVars,
                    timingVars, interruptVars, sizeVars,
                    sharedVars,
                    setterVars >>

\* the core transmits the frame of a buffer whose request is pending
core_transmit(i) ==
    /\ i \in txregs.txbrp
    /\ txregs' = [ txregs EXCEPT
                     !.txbrp = @ \ {i}, !.txbar = @ \ {i},
                     !.txbto = @ \cup {i},
                     !.txbcr = @ \ {i},
                     !.txbcf = IF i \in txregs.txbcr THEN @ \cup {i} ELSE @ ]
    /\ tlast' = [ NoTransportCall EXCEPT !.op = "core_transmit",
                                         !.idx = [ instance |-> txch.instance,
                                                   idx |-> i ] ]
    /\ UNCHANGED << txch, tx_ram, builderVars, instancesVars, channelVars,
                    waitVars,
                    timingVars, interruptVars, sizeVars,
                    sharedVars,
                    setterVars >>

\* the core finishes a requested cancellation
core_cancel(i) ==
    /\ i \in txregs.txbrp
    /\ i \in txregs.txbcr
    /\ txregs' = [ txregs EXCEPT
                     !.txbrp = @ \ {i}, !.txbar = @ \ {i},
                     !.txbcr = @ \ {i}, !.txbcf = @ \cup {i} ]
    /\ tlast' = [ NoTransportCall EXCEPT !.op = "core_cancel",
                                         !.idx = [ instance |-> txch.instance,
                                                   idx |-> i ] ]
    /\ UNCHANGED << txch, tx_ram, builderVars, instancesVars, channelVars,
                    waitVars,
                    timingVars, interruptVars, sizeVars,
                    sharedVars,
                    setterVars >>

NoRequests ==
    [ txbar |-> {}, txbcr |-> {}, txbrp |-> {}, txbto |-> {}, txbcf |-> {} ]

\* a channel in an operating mode whose layout has dedicated TX buffers or
\* none; the message RAM was zeroed on the way
InitTransport ==
    /\ txch \in [ instance : { "FdCan1", "FdCan2" },
                  timeout_iterations_long : { 1, MaxTimeout },
                  layout : { [ MessageRamLayout_default EXCEPT
                                 !.tx_buffers_addr = a,
                                 !.tx_buffers_len = n,
                                 !.tx_buffers_data_size = ds ] :
                             a \in { 8 }, n \in { 0, MaxTxIdx },
                             ds \in { 8, 16 } } ]
    /\ txregs = NoRequests
    /\ tx_ram = {}
    /\ tlast = NoTransportCall

\* the transport while another component is driven
TransportIdle ==
    /\ txch = [ instance |-> "FdCan1", timeout_iterations_long |-> MaxTimeout,
                layout |-> MessageRamLayout_default ]
    /\ txregs = NoRequests
    /\ tx_ram = {}
    /\ tlast = NoTransportCall

(***************************************************************************)
(* Bit timing (config.rs): NominalBitTiming, DataBitTiming and the two     *)
(* Config-mode setters that program NBTP and DBTP.                         *)
(***************************************************************************)

\* NominalBitTiming::default
NominalBitTiming_default ==
    [ prescaler |-> 1, seg1 |-> 11, seg2 |-> 4, sync_jump_width |-> 4 ]

\* DataBitTiming::default
DataBitTiming_default ==
    [ prescaler |-> 1, seg1 |-> 11, seg2 |-> 4, sync_jump_width |-> 4 ]

\* NominalBitTiming values: the default one and the ends of the documented
\* ranges (prescaler 1..512, seg1 1..128, seg2 1..255, sjw 1..128)
NominalBitTimings ==
    [ prescaler : { 1, 512 }, seg1 : { 11, 128 }, seg2 : { 4, 255 },
      sync_jump_width : { 4, 128 } ]

\* DataBitTiming values: the default one and the ends of the documented
\* ranges (prescaler 1..31, seg1 1..31, seg2 1..15, sjw 1..15)
DataBitTimings ==
    [ prescaler : { 1, 31 }, seg1 : { 11, 31 }, seg2 : { 4, 15 },
      sync_jump_width : { 4, 15 } ]

\* x & (2^bits - 1)
mask(x, bits) == x % (2 ^ bits)

\* NominalBitTiming::nbrp, ntseg1, ntseg2, nsjw
nbrp(b) == mask(b.prescaler, 9)

ntseg1(b) == b.seg1

ntseg2(b) == mask(b.seg2, 7)

nsjw(b) == mask(b.sync_jump_width, 7)

\* DataBitTiming::dbrp, dtseg1, dtseg2, dsjw
dbrp(b) == mask(b.prescaler, 5)

dtseg1(b) == mask(b.seg1, 5)

dtseg2(b) == mask(b.seg2, 4)

dsjw(b) == mask(b.sync_jump_width, 4)

\* the field is programmed with the accessor's value as it is
field_raw(x, width, bits) == mask(x, bits)

\* w.set_f(x - 1): the subtraction on an unsigned integer of the given
\* width wraps in a build without overflow checks, and the register setter
\* keeps the bits of the field
field(x, width, bits) == mask((x + (2 ^ width) - 1) % (2 ^ width), bits)

\* x - 1 underflows
underflows(x) == x = 0

\* the NBTP fields written by set_nominal_bit_timing
nbtp_fields(b) ==
    [ nbrp |-> field(nbrp(b), 16, 9), ntseg1 |-> field(ntseg1(b), 8, 8),
      ntseg2 |-> field(ntseg2(b), 8, 7), nsjw |-> field(nsjw(b), 8, 7) ]

\* the DBTP fields written by set_data_bit_timing
dbtp_fields(b) ==
    [ dbrp |-> field(dbrp(b), 8, 5), dtseg1 |-> field(dtseg1(b), 8, 5),
      dtseg2 |-> field(dtseg2(b), 8, 4), dsjw |-> field(dsjw(b), 8, 4) ]

NoTimingCall ==
    [ op |-> "none", nbtr |-> NominalBitTiming_default,
      dbtr |-> DataBitTiming_default, res |-> "Ok" ]

\* FdCan<ConfigMode>::set_nominal_bit_timing; overflow_checks tells whether
\* the build panics on an integer underflow
set_nominal_bit_timing(b, overflow_checks) ==
    LET panics == /\ overflow_checks
                  /\ \/ underflows(nbrp(b)) \/ underflows(ntseg1(b))
                     \/ underflows(ntseg2(b)) \/ underflows(nsjw(b))
    IN  /\ btr' = [ btr EXCEPT !.nbtr = b ]
        /\ btp' = IF panics THEN btp
                  ELSE [ btp EXCEPT !.nbtp = nbtp_fields(b) ]
        /\ btlast' = [ NoTimingCall EXCEPT
                         !.op = "set_nominal_bit_timing", !.nbtr = b,
                         !.res = IF panics THEN "panic" ELSE "Ok" ]
        /\ UNCHANGED << builderVars, instancesVars, channelVars, waitVars,
                        transportVars, interruptVars, sizeVars,
                    sharedVars,
                    setterVars >>

\* FdCan<ConfigMode>::set_data_bit_timing
set_data_bit_timing(b, overflow_checks) ==
    LET panics == /\ overflow_checks
                  /\ \/ underflows(dbrp(b)) \/ underflows(dtseg1(b))
                     \/ underflows(dtseg2(b)) \/ underflows(dsjw(b))
    IN  /\ btr' = [ btr EXCEPT !.dbtr = b ]
        /\ btp' = IF panics THEN btp
                  ELSE [ btp EXCEPT !.dbtp = dbtp_fields(b) ]
        /\ btlast' = [ NoTimingCall EXCEPT
                         !.op = "set_data_bit_timing", !.dbtr = b,
                         !.res = IF panics THEN "panic" ELSE "Ok" ]
        /\ UNCHANGED << builderVars, instancesVars, channelVars, waitVars,
                        transportVars, interruptVars, sizeVars,
                    sharedVars,
                    setterVars >>

\* the default configuration and the reset values of NBTP (0x0600_0A03) and
\* DBTP (0x0000_0A33)
InitTiming ==
    /\ btr = [ nbtr |-> NominalBitTiming_default,
               dbtr |-> DataBitTiming_default ]
    /\ btp = [ nbtp |-> [ nbrp |-> 0, ntseg1 |-> 10, ntseg2 |-> 3,
                          nsjw |-> 3 ],
               dbtp |-> [ dbrp |-> 0, dtseg1 |-> 10, dtseg2 |-> 3,
                          dsjw |-> 3 ] ]
    /\ btlast = NoTimingCall

\* the bit timing while another component is driven
TimingIdle == InitTiming

(***************************************************************************)
(* The interrupt handler (asynchronous.rs).                                *)
(***************************************************************************)

\* the bit of the IR register of the receive-on-dedicated-buffer flag
DRX == 19

\* the bit of the IR register of the access-to-reserved-address flag, the
\* highest flag of the register
ARA == 29

\* the IR flags the model follows
Flags == { DRX, ARA }

\* FdCanInterrupt: the interrupt line
FdCanInterrupt == { "Line0", "Line1" }

\* Ir(u32::MAX >> 3): the bits 0..28
ir_write_value_short == 0..28

\* Ir(u32::MAX >> 2): the bits 0..29 are written with one
ir_write_value == 0..29

NoInterruptCall ==
    [ op |-> "none", instance |-> "FdCan1", irq |-> "Line0", read |-> {},
      raised |-> {}, woken |-> {} ]

\* on_interrupt; raised are the flags the core sets between the read of IR
\* and the write that clears the flags written with one
on_interrupt(i, irq, raised) ==
    LET read == ir[i]
        woken == IF DRX \in read THEN { i } ELSE {}
    IN  /\ \A j \in woken : wakes[j] < MaxWakes
        /\ wakes' = [ j \in FdCanInstance |->
                        IF j \in woken THEN wakes[j] + 1 ELSE wakes[j] ]
        /\ ir' = [ ir EXCEPT ![i] = (read \cup raised) \ ir_write_value ]
        /\ ilast' = [ op |-> "on_interrupt", instance |-> i, irq |-> irq,
                      read |-> read, raised |-> raised, woken |-> woken ]
        /\ UNCHANGED << builderVars, instancesVars, channelVars, waitVars,
                        transportVars, timingVars, sizeVars,
                    sharedVars,
                    setterVars >>

\* the core of instance i sets a flag of its IR register
raise_flag(i, b) ==
    /\ b \notin ir[i]
    /\ ir' = [ ir EXCEPT ![i] = @ \cup { b } ]
    /\ ilast' = [ NoInterruptCall EXCEPT !.op = "raise_flag",
                                         !.instance = i, !.raised = { b } ]
    /\ UNCHANGED << wakes, builderVars, instancesVars, channelVars, waitVars,
                    transportVars, timingVars, sizeVars,
                    sharedVars,
                    setterVars >>

\* no flag pending, no waker woken
InitInterrupt ==
    /\ ir = [ i \in FdCanInstance |-> {} ]
    /\ wakes = [ i \in FdCanInstance |-> 0 ]
    /\ ilast = NoInterruptCall

\* the interrupt state while another component is driven
InterruptIdle == InitInterrupt

(***************************************************************************)
(* The hardware code of DataFieldSize (message_ram_layout.rs) as           *)
(* set_layout writes it to RXESC.                                          *)
(***************************************************************************)

\* the variants of DataFieldSize in the order of their declaration
DataFieldSizeOrder == << 8, 12, 16, 20, 24, 32, 48, 64 >>

\* an encoding with the codes of _32Bytes and _48Bytes exchanged
config_register_swapped(ds) ==
    CASE ds = 8 -> 0 [] ds = 12 -> 1 [] ds = 16 -> 2 [] ds = 20 -> 3
      [] ds = 24 -> 4 [] ds = 32 -> 6 [] ds = 48 -> 5 [] ds = 64 -> 7

\* DataFieldSize::config_register
config_register(ds) ==
    CASE ds = 8 -> 0 [] ds = 12 -> 1 [] ds = 16 -> 2 [] ds = 20 -> 3
      [] ds = 24 -> 4 [] ds = 32 -> 5 [] ds = 48 -> 6 [] ds = 64 -> 7

\* the data field size the core takes a code for: the variant at that place
decode(code) == DataFieldSizeOrder[code + 1]

\* set_layout: the write of RXESC
write_rxesc ==
    /\ ~rxesc_written
    /\ rxesc' = [ rbds |-> config_register(ds_layout.rx_buffers_data_size),
                  f0ds |-> config_register(ds_layout.rx_fifo0_data_size),
                  f1ds |-> config_register(ds_layout.rx_fifo1_data_size) ]
    /\ rxesc_written' = TRUE
    /\ UNCHANGED << ds_layout, builderVars, instancesVars, channelVars,
                    waitVars, transportVars, timingVars, interruptVars,
                    sharedVars,
                    setterVars >>

\* a layout with any data field sizes for the RX buffers and RX FIFO 0;
\* RXESC holds its reset value
InitSize ==
    /\ ds_layout \in [ rx_buffers_data_size : DataFieldSize,
                       rx_fifo0_data_size : DataFieldSize,
                       rx_fifo1_data_size : { 8, 64 } ]
    /\ rxesc = [ rbds |-> 0, f0ds |-> 0, f1ds |-> 0 ]
    /\ rxesc_written = FALSE

\* the element sizes while another component is driven
SizeIdle ==
    /\ ds_layout = [ rx_buffers_data_size |-> 8, rx_fifo0_data_size |-> 8,
                     rx_fifo1_data_size |-> 8 ]
    /\ rxesc = [ rbds |-> 0, f0ds |-> 0, f1ds |-> 0 ]
    /\ rxesc_written = FALSE

(***************************************************************************)
(* Two channels of one FdCanInstances.  Each has its own registers and its *)
(* own finalized layout; FDCAN_MSGRAM_ADDR is the one message RAM of all   *)
(* instances.  The cores answer check_core; the polls are answered as the  *)
(* caller of each transition says.                                         *)
(***************************************************************************)
SharedChannels == { "FdCan1", "FdCan2" }

\* the layouts of two passes of the builder, each with one TX buffer of
\* the default data field size
shared_layout ==
    [ c \in SharedChannels |->
        [ MessageRamLayout_default EXCEPT
            !.tx_buffers_addr = IF c = "FdCan1" THEN 0 ELSE 16,
            !.tx_buffers_len = 1 ] ]

\* the message RAM words of the TX buffer region of a layout
layout_words(l) ==
    l.tx_buffers_addr
      ..(l.tx_buffers_addr
           + l.tx_buffers_len * (2 + words(l.tx_buffers_data_size)) - 1)

\* the words of the message RAM the model follows: the first of each region
SharedWords == { shared_layout[c].tx_buffers_addr : c \in SharedChannels }

NoSharedCall ==
    [ op |-> "none", ch |-> "FdCan1", res |-> "Ok", log |-> << >> ]

\* a transition of channel c: r is what its body did
transition_of(c, op, r, ok_mode, err_mode) ==
    /\ slast' = [ op |-> op, ch |-> c, res |-> r.res, log |-> r.log ]
    /\ msgram' = ram_apply(msgram, r.log)
    /\ chmode' = [ chmode EXCEPT
                     ![c] = IF r.res = "Ok" THEN ok_mode ELSE err_mode ]
    /\ UNCHANGED << builderVars, instancesVars, channelVars, waitVars,
                    transportVars, timingVars, interruptVars, sizeVars,
                    setterVars >>

\* FdCan<PoweredDownMode>::into_config_mode on channel c
into_config_mode_of(c, f_csa, f_init) ==
    /\ chmode[c] = "PoweredDownMode"
    /\ transition_of(c, "into_config_mode", try_config_mode(f_csa, f_init),
                     "ConfigMode", "PoweredDownMode")

\* FdCan<ConfigMode>::into_normal on channel c
into_normal_of(c, f) ==
    /\ chmode[c] = "ConfigMode"
    /\ transition_of(c, "into_normal",
                     config_exit(set_loopback_mode("None"), f),
                     "NormalOperationMode", "ConfigMode")

\* FdCan<ConfigMode>::into_powered_down on channel c
into_powered_down_of(c, f_csa, f_init) ==
    /\ chmode[c] = "ConfigMode"
    /\ transition_of(c, "into_powered_down",
                     Then(set_power_down_mode(TRUE, f_csa),
                          leave_init_mode(f_init)),
                     "PoweredDownMode", "PoweredDownMode")

\* channel c in an operating mode writes a frame into its TX buffer
write_tx_buffer_of(c, a) ==
    /\ chmode[c] \in OperatingModes
    /\ a \in layout_words(shared_layout[c])
    /\ ~msgram[a]
    /\ msgram' = [ msgram EXCEPT ![a] = TRUE ]
    /\ slast' = [ NoSharedCall EXCEPT !.op = "write_tx_buffer_pend",
                                      !.ch = c ]
    /\ UNCHANGED << chmode, builderVars, instancesVars, channelVars,
                    waitVars, transportVars, timingVars, interruptVars,
                    sizeVars,
                    setterVars >>

\* both channels as FdCanInstances::new made them; the message RAM holds
\* anything
InitShared ==
    /\ chmode = [ c \in SharedChannels |-> "PoweredDownMode" ]
    /\ msgram \in [ SharedWords -> BOOLEAN ]
    /\ slast = NoSharedCall

\* the two channels while another component is driven
SharedIdle ==
    /\ chmode = [ c \in SharedChannels |-> "PoweredDownMode" ]
    /\ msgram = [ a \in SharedWords |-> FALSE ]
    /\ slast = NoSharedCall

(***************************************************************************)
(* The Config-mode setters and the cached FdCanConfig (config.rs).  Two    *)
(* Three fields are followed: automatic_retransmit and transmit_pause,     *)
(* whose setters store their argument as those of the other CCCR bits do,  *)
(* and global_filter.                                                      *)
(***************************************************************************)

\* enum NonMatchingFilter
NonMatchingFilter == { "IntoRxFifo0", "IntoRxFifo1", "Reject" }

\* NonMatchingFilter as u8
NonMatchingFilter_u8(f) ==
    CASE f = "IntoRxFifo0" -> 0
      [] f = "IntoRxFifo1" -> 1
      [] f = "Reject" -> 3

\* struct GlobalFilter: the two fields for standard frames
GlobalFilter ==
    [ handle_standard_frames : NonMatchingFilter,
      reject_remote_standard_frames : BOOLEAN ]

\* GlobalFilter::default
GlobalFilter_default ==
    [ handle_standard_frames |-> "IntoRxFifo0",
      reject_remote_standard_frames |-> FALSE ]

\* the fields set_global_filter writes into GFC
gfc_fields(filter) ==
    [ anfs |-> NonMatchingFilter_u8(filter.handle_standard_frames),
      rrfs |-> filter.reject_remote_standard_frames ]

\* set_global_filter on st, the pair of self.config and the registers:
\* GFC is written, self.config is not
global_filter_written(st, filter) ==
    [ st EXCEPT !.can.gfc = gfc_fields(filter) ]

\* set_automatic_retransmit on st: DAR is written, the argument is stored
automatic_retransmit_written(st, enabled) ==
    [ config |-> [ st.config EXCEPT !.automatic_retransmit = enabled ],
      can |-> [ st.can EXCEPT !.dar = ~enabled ] ]

\* set_transmit_pause on st: TXP is written, the argument is stored
transmit_pause_written(st, enabled) ==
    [ config |-> [ st.config EXCEPT !.transmit_pause = enabled ],
      can |-> [ st.can EXCEPT !.txp = enabled ] ]

\* apply_config(config) on st: the setters of the three fields, in its
\* order
apply_config(st, c) ==
    global_filter_written(
        transmit_pause_written(
            automatic_retransmit_written(st, c.automatic_retransmit),
            c.transmit_pause),
        c.global_filter)

NoSetterCall == [ op |-> "none", res |-> "Ok" ]

\* FdCan<ConfigMode>::set_automatic_retransmit
set_automatic_retransmit(enabled) ==
    /\ setmode = "ConfigMode"
    /\ LET st == automatic_retransmit_written(
                     [ config |-> setcfg, can |-> sethw ], enabled)
       IN  /\ setcfg' = st.config
           /\ sethw' = st.can
    /\ given' = [ given EXCEPT !.automatic_retransmit = { enabled } ]
    /\ setlast' = [ NoSetterCall EXCEPT !.op = "set_automatic_retransmit" ]
    /\ UNCHANGED << setmode, builderVars, instancesVars, channelVars,
                    waitVars, transportVars, timingVars, interruptVars,
                    sizeVars, sharedVars >>

\* FdCan<ConfigMode>::set_transmit_pause
set_transmit_pause(enabled) ==
    /\ setmode = "ConfigMode"
    /\ LET st == transmit_pause_written(
                     [ config |-> setcfg, can |-> sethw ], enabled)
       IN  /\ setcfg' = st.config
           /\ sethw' = st.can
    /\ given' = [ given EXCEPT !.transmit_pause = { enabled } ]
    /\ setlast' = [ NoSetterCall EXCEPT !.op = "set_transmit_pause" ]
    /\ UNCHANGED << setmode, builderVars, instancesVars, channelVars,
                    waitVars, transportVars, timingVars, interruptVars,
                    sizeVars, sharedVars >>

\* FdCan<ConfigMode>::set_global_filter
set_global_filter(filter) ==
    /\ setmode = "ConfigMode"
    /\ LET st == global_filter_written(
                     [ config |-> setcfg, can |-> sethw ], filter)
       IN  /\ setcfg' = st.config
           /\ sethw' = st.can
    /\ given' = [ given EXCEPT !.global_filter = { filter } ]
    /\ setlast' = [ NoSetterCall EXCEPT !.op = "set_global_filter" ]
    /\ UNCHANGED << setmode, builderVars, instancesVars, channelVars,
                    waitVars, transportVars, timingVars, interruptVars,
                    sizeVars, sharedVars >>

\* FdCan<ConfigMode>::into_normal with the three fields followed:
\* leave_init_mode calls apply_config(self.config) before it clears CCE
into_normal_applying(f) ==
    /\ setmode = "ConfigMode"
    /\ LET st == apply_config([ config |-> setcfg, can |-> sethw ], setcfg)
           r == leave_init_mode(f)
       IN  /\ setcfg' = st.config
           /\ sethw' = st.can
           /\ setmode' = IF r.res = "Ok" THEN "NormalOperationMode"
                         ELSE "ConfigMode"
           /\ setlast' = [ op |-> "into_normal", res |-> r.res ]
    /\ UNCHANGED << given, builderVars, instancesVars, channelVars,
                    waitVars, transportVars, timingVars, interruptVars,
                    sizeVars, sharedVars >>

\* a channel that entered Config mode with FdCanConfig::default() cached
\* and the registers at their reset values; no setter was called yet
InitSetter ==
    /\ setmode = "ConfigMode"
    /\ setcfg = [ automatic_retransmit |-> TRUE, transmit_pause |-> FALSE,
                  global_filter |-> GlobalFilter_default ]
    /\ sethw = [ dar |-> FALSE, txp |-> FALSE,
                 gfc |-> [ anfs |-> 0, rrfs |-> FALSE ] ]
    /\ given = [ automatic_retransmit |-> {}, transmit_pause |-> {},
                 global_filter |-> {} ]
    /\ setlast = NoSetterCall

\* the setters while another component is driven
SetterIdle == InitSetter

\* the manager while the builder is driven
InstancesIdle ==
    /\ InitInstances
    /\ embassy
    /\ rcc = [ fdcanen |-> FALSE, fdcanrst |-> FALSE, fdcansel |-> "HSE",
               hseon |-> TRUE, divqen0 |-> FALSE, divqen1 |-> FALSE ]

\* the builder while the manager is driven
BuilderIdle == InitBuilder /\ data_size = 8

(***************************************************************************)
(* One manager after its construction: channels are taken, put back (into  *)
(* any slot) and the clock is disabled.                                    *)
(***************************************************************************)
NextInstances ==
    \/ \E i \in FdCanInstance : take_enabled(i)
    \/ \E c \in Channels, i \in FdCanInstance : put_back(c, i)
    \/ disable

InitSpecInstances ==
    InitInstances /\ BuilderIdle /\ ChannelIdle /\ WaitIdle /\ TransportIdle
    /\ TimingIdle /\ InterruptIdle /\ SizeIdle
    /\ SharedIdle
    /\ SetterIdle

SpecInstances == InitSpecInstances /\ [][NextInstances]_vars

(***************************************************************************)
(* The same program, which may also switch to a manager made by            *)
(* FdCanInstances::empty.                                                  *)
(***************************************************************************)
NextEmpty ==
    \/ \E i \in FdCanInstance : take_enabled(i)
    \/ \E c \in Channels, i \in FdCanInstance : put_back(c, i)
    \/ disable
    \/ empty_manager

SpecEmpty == InitSpecInstances /\ [][NextEmpty]_vars

(***************************************************************************)
(* A program from boot that calls FdCanInstances::new any number of times  *)
(* and keeps the manager the last successful call returned.                *)
(***************************************************************************)
NextNew ==
    \/ new
    \/ \E i \in FdCanInstance : take_enabled(i)
    \/ \E c \in Channels, i \in FdCanInstance : put_back(c, i)
    \/ disable

InitSpecNew ==
    InitBoot /\ BuilderIdle /\ ChannelIdle /\ WaitIdle /\ TransportIdle
    /\ TimingIdle /\ InterruptIdle /\ SizeIdle
    /\ SharedIdle
    /\ SetterIdle

SpecNew == InitSpecNew /\ [][NextNew]_vars

(***************************************************************************)
(* One call of checked_wait, for every behaviour of the closure and every  *)
(* budget within the bounds.                                               *)
(***************************************************************************)
NextWait == call_checked_wait

InitSpecWait ==
    /\ InitWait /\ BuilderIdle /\ InstancesIdle /\ ChannelIdle
    /\ TransportIdle /\ TimingIdle /\ InterruptIdle /\ SizeIdle
    /\ SharedIdle
    /\ SetterIdle

SpecWait == InitSpecWait /\ [][NextWait]_vars

(***************************************************************************)
(* The data field sizes of a layout encoded into RXESC.                    *)
(***************************************************************************)
NextSize == write_rxesc

InitSpecSize ==
    /\ InitSize /\ BuilderIdle /\ InstancesIdle /\ ChannelIdle /\ WaitIdle
    /\ TransportIdle /\ TimingIdle /\ InterruptIdle
    /\ SharedIdle
    /\ SetterIdle

SpecSize == InitSpecSize /\ [][NextSize]_vars

(***************************************************************************)
(* The cores raising flags and the interrupt handler called for any        *)
(* instance.                                                               *)
(***************************************************************************)
NextInterrupt ==
    \/ \E i \in FdCanInstance, irq \in FdCanInterrupt, raised \in SUBSET Flags :
         on_interrupt(i, irq, raised)
    \/ \E i \in FdCanInstance, b \in Flags : raise_flag(i, b)

InitSpecInterrupt ==
    /\ InitInterrupt /\ BuilderIdle /\ InstancesIdle /\ ChannelIdle
    /\ WaitIdle /\ TransportIdle /\ TimingIdle /\ SizeIdle
    /\ SharedIdle
    /\ SetterIdle

SpecInterrupt == InitSpecInterrupt /\ [][NextInterrupt]_vars

(***************************************************************************)
(* The bit timing setters called on one channel in Config mode, in a build *)
(* with and without overflow checks.                                       *)
(***************************************************************************)
NextTiming ==
    \/ \E b \in NominalBitTimings, overflow_checks \in BOOLEAN :
         set_nominal_bit_timing(b, overflow_checks)
    \/ \E b \in DataBitTimings, overflow_checks \in BOOLEAN :
         set_data_bit_timing(b, overflow_checks)

InitSpecTiming ==
    /\ InitTiming /\ BuilderIdle /\ InstancesIdle /\ ChannelIdle
    /\ WaitIdle /\ TransportIdle /\ InterruptIdle /\ SizeIdle
    /\ SharedIdle
    /\ SetterIdle

SpecTiming == InitSpecTiming /\ [][NextTiming]_vars

(***************************************************************************)
(* One channel taken from the manager and driven through its modes, with   *)
(* every answer of the hardware to the polls.                              *)
(***************************************************************************)
NextChannel ==
    \/ \E f_csa, f_init \in PollBehaviours : into_config_mode(f_csa, f_init)
    \/ \E f \in PollBehaviours : into_internal_loopback(f)
    \/ \E f \in PollBehaviours : into_external_loopback(f)
    \/ \E f \in PollBehaviours : into_restricted(f)
    \/ \E f \in PollBehaviours : into_normal(f)
    \/ \E f \in PollBehaviours : into_bus_monitoring(f)
    \/ \E f \in PollBehaviours : into_test_mode(f)
    \/ \E f_csa, f_init \in PollBehaviours : into_powered_down(f_csa, f_init)
    \/ \E l \in {MessageRamLayout_default, some_layout} : set_layout(l)
    \/ \E a \in RamSample : write_tx_buffer_word(a)

InitSpecChannel ==
    InitChannel /\ BuilderIdle /\ InstancesIdle /\ WaitIdle /\ TransportIdle
    /\ TimingIdle /\ InterruptIdle /\ SizeIdle
    /\ SharedIdle
    /\ SetterIdle

SpecChannel == InitSpecChannel /\ [][NextChannel]_vars

\* two channels driven in any interleaving
NextShared ==
    \/ \E c \in SharedChannels, f_csa, f_init \in PollBehaviours :
         into_config_mode_of(c, f_csa, f_init)
    \/ \E c \in SharedChannels, f \in PollBehaviours : into_normal_of(c, f)
    \/ \E c \in SharedChannels, f_csa, f_init \in PollBehaviours :
         into_powered_down_of(c, f_csa, f_init)
    \/ \E c \in SharedChannels, a \in SharedWords : write_tx_buffer_of(c, a)

InitSpecShared ==
    InitShared /\ BuilderIdle /\ InstancesIdle /\ ChannelIdle /\ WaitIdle
    /\ TransportIdle /\ TimingIdle /\ InterruptIdle /\ SizeIdle
    /\ SetterIdle

SpecShared == InitSpecShared /\ [][NextShared]_vars

\* setter calls in Config mode, then the exit
NextSetter ==
    \/ \E enabled \in BOOLEAN : set_automatic_retransmit(enabled)
    \/ \E enabled \in BOOLEAN : set_transmit_pause(enabled)
    \/ \E filter \in GlobalFilter : set_global_filter(filter)
    \/ \E f \in PollBehaviours : into_normal_applying(f)

InitSpecSetter ==
    InitSetter /\ BuilderIdle /\ InstancesIdle /\ ChannelIdle /\ WaitIdle
    /\ TransportIdle /\ TimingIdle /\ InterruptIdle /\ SizeIdle
    /\ SharedIdle

SpecSetter == InitSpecSetter /\ [][NextSetter]_vars

\* the transport driven on one channel
NextTransport ==
    \/ \E idx \in TxBufferIdx, len \in PayloadLens :
         write_tx_buffer_pend(idx, len)
    \/ \E idx \in TxBufferIdx, f \in CfBehaviours, sent \in BOOLEAN :
         abort(idx, f, sent)
    \/ \E i \in 0..MaxTxIdx : core_transmit(i)
    \/ \E i \in 0..MaxTxIdx : core_cancel(i)

InitSpecTransport ==
    /\ InitTransport
    /\ BuilderIdle
    /\ InstancesIdle
    /\ ChannelIdle
    /\ WaitIdle
    /\ TimingIdle
    /\ InterruptIdle
    /\ SizeIdle
    /\ SharedIdle
    /\ SetterIdle

SpecTransport == InitSpecTransport /\ [][NextTransport]_vars

(***************************************************************************)
(* The partition passes a caller drives on one builder chain.  The counts  *)
(* it passes are those of basic_layout and of the example (one element, or *)
(* none for RX FIFO1, the FIFO/queue and the trigger memory), a full RX    *)
(* FIFO0, one more than each region's maximum, and the largest u8 for the  *)
(* FIFO/queue; every call of a chain passes the same DataFieldSize.        *)
(***************************************************************************)
U8_MAX == 255

NextBuilder ==
    \/ \E len \in {1, MAX_ELEMENTS_ElevenBitFilters + 1} :
         allocate_11bit_filters(len)
    \/ \E len \in {1, MAX_ELEMENTS_TwentyNineBitFilters + 1} :
         allocate_29bit_filters(len)
    \/ \E len \in {1, MAX_ELEMENTS_RxFifo0, MAX_ELEMENTS_RxFifo0 + 1} :
         allocate_rx_fifo0_buffers(len, data_size)
    \/ \E len \in {0, MAX_ELEMENTS_RxFifo1 + 1} :
         allocate_rx_fifo1_buffers(len, data_size)
    \/ \E len \in {1, MAX_ELEMENTS_RxBuffers + 1} :
         allocate_rx_buffers(len, data_size)
    \/ skip_dedicated_buffers
    \/ \E len \in {1, MAX_ELEMENTS_TxEventFifo + 1} :
         allocate_tx_event_fifo_buffers(len)
    \/ tx_buffer_element_size(data_size)
    \/ allocate_dedicated_tx_buffer
    \/ \E len \in {0, 1, MAX_ELEMENTS_TxBuffers,
                    MAX_ELEMENTS_TxBuffers + 1, U8_MAX} :
         allocate_fifo_or_queue(len)
    \/ \E len \in {0, MAX_ELEMENTS_TriggerMemory + 1} :
         allocate_triggers(len)

InitSpecBuilder ==
    InitBuilder /\ InstancesIdle /\ ChannelIdle /\ WaitIdle /\ TransportIdle
    /\ TimingIdle /\ InterruptIdle /\ SizeIdle
    /\ SharedIdle
    /\ SetterIdle

SpecBuilder == InitSpecBuilder /\ [][NextBuilder]_vars

(***************************************************************************)
(* The regions of a layout, in the order of the allocation steps, each     *)
(* with its start, its element count and its extent in cursor units (an    *)
(* element of w words advances the cursor by w x 4).                       *)
(***************************************************************************)
Region(addr, len, element_size_words) ==
    [ addr |-> addr, len |-> len, size |-> len * element_size_words * 4 ]

Regions(l) ==
    << Region(l.eleven_bit_filters_addr, l.eleven_bit_filters_len, 1),
       Region(l.twenty_nine_bit_filters_addr,
              l.twenty_nine_bit_filters_len, 2),
       Region(l.rx_fifo0_addr, l.rx_fifo0_len,
              2 + words(l.rx_fifo0_data_size)),
       Region(l.rx_fifo1_addr, l.rx_fifo1_len,
              2 + words(l.rx_fifo1_data_size)),
       Region(l.rx_buffers_addr, l.rx_buffers_len,
              2 + words(l.rx_buffers_data_size)),
       Region(l.tx_event_fifo_addr, l.tx_event_fifo_len, 2),
       Region(l.tx_buffers_addr, l.tx_buffers_len,
              2 + words(l.tx_buffers_data_size)),
       Region(l.trigger_memory_addr, l.trigger_memory_len, 2) >>

Disjoint(r, q) ==
    \/ r.addr + r.size <= q.addr
    \/ q.addr + q.size <= r.addr

\* the calls that allocate elements of a region
AllocOps ==
    { "allocate_11bit_filters", "allocate_29bit_filters",
      "allocate_rx_fifo0_buffers", "allocate_rx_fifo1_buffers",
      "allocate_rx_buffers", "allocate_tx_event_fifo_buffers",
      "allocate_dedicated_tx_buffer", "allocate_fifo_or_queue",
      "allocate_triggers" }

\* the cursor the last call would have moved to
LastNewCursor == last.pos + last.mlen * last.words * 4

(***************************************************************************)
(* C1: the cursor never exceeds the RAM capacity minus the 4 reserved      *)
(* trailer words, and an allocation call whose new cursor (cursor + count  *)
(* x element_word_size x 4) would exceed that bound fails and leaves the   *)
(* cursor where it was; the failure is OutOfMemory whenever the call       *)
(* passed the checks that come before the capacity check (a channel is     *)
(* left to partition for, the count is within the region's maximum and the *)
(* u8 sum of the FIFO/queue call did not overflow).                        *)
(***************************************************************************)
C1_CursorWithinCapacity ==
    /\ pos <= FDCAN_MSGRAM_LEN_WORDS - 4
    /\ (last.op \in AllocOps /\ LastNewCursor > FDCAN_MSGRAM_LEN_WORDS - 4)
         => /\ last.res # "Ok"
            /\ phantom = "Abandoned"
            /\ pos = last.pos
            /\ (last.instance # None /\ last.mlen <= last.max
                  /\ last.res # "Panic")
                 => last.res = "OutOfMemory"
    /\ last.res = "OutOfMemory"
         => LastNewCursor > FDCAN_MSGRAM_LEN_WORDS - 4

\* an allocation within its region's maximum ran out of memory after
\* earlier allocations had advanced the cursor
C1_Witness ==
    /\ last.res = "OutOfMemory"
    /\ last.mlen <= last.max
    /\ pos > 0
    /\ pos = last.pos
    /\ Len(layouts) > 0

(***************************************************************************)
(* C2: an allocation call whose count is at most its region's maximum, and *)
(* with which the cumulative word usage of the chain stays at most the RAM *)
(* capacity in words minus the reserved trailer, succeeds.                 *)
(***************************************************************************)
C2_FitsInWordsSucceeds ==
    ( /\ last.op \in AllocOps
      /\ last.instance # None
      /\ last.count <= last.max
      /\ (last.pos \div 4) + last.count * last.words
           <= FDCAN_MSGRAM_LEN_WORDS - 4 )
      => last.res = "Ok"

(***************************************************************************)
(* C3: in every finalized layout the regions appear in the fixed order,    *)
(* each region with a non-zero count starts exactly where the previous     *)
(* allocated region ended, and no two regions overlap.                     *)
(***************************************************************************)
Contiguous(rs) ==
    \A k \in 1..Len(rs) :
      rs[k].len > 0 =>
        \A j \in 1..(k - 1) :
          (rs[j].len > 0 /\ \A m \in (j + 1)..(k - 1) : rs[m].len = 0)
            => rs[k].addr = rs[j].addr + rs[j].size

Ordered(rs) ==
    \A j, k \in 1..Len(rs) :
      (j < k /\ rs[j].len > 0 /\ rs[k].len > 0) => rs[j].addr <= rs[k].addr

NoOverlap(rs) ==
    \A j, k \in 1..Len(rs) :
      (j < k /\ rs[j].len > 0 /\ rs[k].len > 0) => Disjoint(rs[j], rs[k])

C3_LayoutContiguousOrdered ==
    \A n \in 1..Len(layouts) :
      LET rs == Regions(layouts[n].layout)
      IN  Ordered(rs) /\ Contiguous(rs) /\ NoOverlap(rs)

(***************************************************************************)
(* C4: no region with a non-zero count in the layout of a later channel    *)
(* overlaps a region of an earlier channel's layout.                       *)
(***************************************************************************)
C4_ChannelsDisjoint ==
    \A m, n \in 1..Len(layouts) :
      m < n =>
        LET early == Regions(layouts[m].layout)
            late == Regions(layouts[n].layout)
        IN  \A j \in 1..Len(early), k \in 1..Len(late) :
              (early[j].len > 0 /\ late[k].len > 0)
                => Disjoint(early[j], late[k])

(***************************************************************************)
(* C5: an allocation call whose element count exceeds the region's maximum *)
(* fails with TooManyElements, also when the capacity is exceeded as well. *)
(***************************************************************************)
C5_TooManyElementsFirst ==
    (last.op \in AllocOps /\ last.instance # None /\ last.count > last.max)
      => last.res = "TooManyElements"

(***************************************************************************)
(* C6: the passes are assigned FdCan1, FdCan2, FdCan3 in this order; once  *)
(* the pass for FdCan3 has completed, the returned builder is in its first *)
(* step with no channel left, its first allocation call fails with         *)
(* TooManyInstances, and no further layout is produced.                    *)
(***************************************************************************)
PassOrder == << "FdCan1", "FdCan2", "FdCan3" >>

C6_RoundRobinThenTooManyInstances ==
    /\ Len(layouts) <= Len(PassOrder)
    /\ \A n \in 1..Len(layouts) : layouts[n].instance = PassOrder[n]
    /\ Len(layouts) < Len(PassOrder)
         => instance = PassOrder[Len(layouts) + 1]
    /\ Len(layouts) = Len(PassOrder)
         => /\ instance = None
            /\ \/ phantom = "ElevenBitFilters" /\ last.op = "allocate_triggers"
               \/ /\ phantom = "Abandoned"
                  /\ last.op = "allocate_11bit_filters"
                  /\ last.res = "TooManyInstances"

\* three passes completed and the next allocation call was rejected
C6_Witness ==
    /\ Len(layouts) = 3
    /\ last.op = "allocate_11bit_filters"
    /\ last.res = "TooManyInstances"

(***************************************************************************)
(* C7: in every pass the n-th call of allocate_dedicated_tx_buffer returns *)
(* a TxBufferIdx tagged with the pass's channel and with slot index n-1.   *)
(***************************************************************************)
C7_DedicatedIndexFromZero ==
    (last.op = "allocate_dedicated_tx_buffer" /\ last.res = "Ok")
      => /\ last.idx = last.n - 1
         /\ issued[Len(issued)] = [ instance |-> PassOrder[Len(layouts) + 1],
                                    idx |-> last.n - 1 ]

(***************************************************************************)
(* C8: the initial builder is obtained at most once: after a call of       *)
(* FdCanInstances::new has succeeded, every later call fails with          *)
(* PeripheralTaken and returns no second builder.                          *)
(***************************************************************************)
C8_NewAtMostOnce ==
    /\ builders <= 1
    /\ (mlast.op = "new" /\ mlast.news >= 1) => mlast.res = "PeripheralTaken"

(***************************************************************************)
(* C9: take_enabled and disable write the clock-enable and reset bits only *)
(* when every channel slot is occupied, and while some channel is checked  *)
(* out of the manager the shared clock is enabled.                         *)
(***************************************************************************)
C9_ClockOnlyWithAllPresent ==
    /\ (mlast.op \in {"take_enabled", "disable"} /\ mlast.writes # << >>)
         => mlast.all_present
    /\ (\E i \in FdCanInstance : fdcan[i] = NoChannel) => rcc.fdcanen
    /\ (\E c \in Channels : held[c] > 0) => rcc.fdcanen

\* a channel is checked out, the clock having been enabled and disabled
\* before, and a disable has just been refused
C9_Witness ==
    /\ \E c \in Channels : held[c] > 0
    /\ mlast.op = "disable"
    /\ mlast.res = "MissingInstance"
    /\ rcc.fdcanen

(***************************************************************************)
(* C10: take_enabled(id) on an empty slot fails without writing the clock  *)
(* bits: with PeripheralTaken once the step that enables the clock is      *)
(* passed (the clock is enabled, as it is whenever a channel of the        *)
(* manager made by new is checked out), and with MissingInstance from that *)
(* step when the clock is disabled.  So between a successful               *)
(* take_enabled(id) and the next successful put_back(_, id) no other       *)
(* take_enabled(id) succeeds, and no channel value has two holders.        *)
(***************************************************************************)
C10_OneHolder ==
    /\ (mlast.op = "take_enabled" /\ mlast.slot_empty)
         => /\ mlast.writes = << >>
            /\ mlast.res = IF mlast.is_enabled THEN "PeripheralTaken"
                           ELSE "MissingInstance"
    /\ \A i \in FdCanInstance : taken[i] <= 1
    /\ \A c \in Channels : held[c] <= 1

\* a second take_enabled of a channel that is checked out was refused
C10_Witness ==
    /\ mlast.op = "take_enabled"
    /\ mlast.slot_empty
    /\ mlast.res = "PeripheralTaken"
    /\ taken[mlast.instance] = 1
    /\ \E c \in Channels : c.instance = mlast.instance /\ held[c] = 1

(***************************************************************************)
(* C11: when the shared clock is disabled, take_enabled fails with         *)
(* MissingInstance if a slot is empty, and otherwise with                  *)
(* ClockSourceIsDisabled if the selected clock-mux source is not running;  *)
(* in both cases no clock or reset bit is written and no slot is emptied.  *)
(***************************************************************************)
C11_ClockDisabledErrors ==
    [][ (mlast'.op = "take_enabled" /\ ~rcc.fdcanen)
          => /\ ~all_present => mlast'.res = "MissingInstance"
             /\ (all_present /\ ~clock_source_running)
                  => mlast'.res = "ClockSourceIsDisabled"
             /\ (~all_present \/ ~clock_source_running)
                  => /\ mlast'.writes = << >>
                     /\ rcc' = rcc
                     /\ fdcan' = fdcan
                     /\ held' = held ]_vars

\* take_enabled was refused because the clock source is not running, with
\* every slot occupied and the clock still disabled
C11_Witness ==
    /\ mlast.op = "take_enabled"
    /\ mlast.res = "ClockSourceIsDisabled"
    /\ mlast.all_present
    /\ ~mlast.is_enabled
    /\ ~rcc.fdcanen
    /\ all_present

(***************************************************************************)
(* C12: disable clears the shared clock-enable bit and returns Ok only     *)
(* when every slot is occupied; when a channel is checked out it returns   *)
(* MissingInstance and leaves the clock-enable bit unchanged.              *)
(***************************************************************************)
C12_DisableOnlyWithAllPresent ==
    [][ mlast'.op = "disable"
          => IF all_present
             THEN mlast'.res = "Ok" /\ ~rcc'.fdcanen
             ELSE mlast'.res = "MissingInstance" /\ rcc' = rcc ]_vars

\* disable cleared the clock-enable bit that a take_enabled had set
C12_Witness ==
    /\ mlast.op = "disable"
    /\ mlast.res = "Ok"
    /\ mlast.is_enabled
    /\ ~rcc.fdcanen

(***************************************************************************)
(* C13: put_back(channel, id) fails with WrongInstance when the slot for   *)
(* id is occupied and leaves every slot as it was; when the slot is empty  *)
(* it returns Ok and the slot holds the channel.                           *)
(***************************************************************************)
C13_PutBackChecksSlot ==
    [][ mlast'.op = "put_back"
          => IF fdcan[mlast'.instance] # NoChannel
             THEN mlast'.res = "WrongInstance" /\ fdcan' = fdcan
             ELSE /\ mlast'.res = "Ok"
                  /\ fdcan'[mlast'.instance] # NoChannel
                  /\ \A i \in FdCanInstance \ {mlast'.instance} :
                       fdcan'[i] = fdcan[i] ]_vars

\* a put_back into an occupied slot was refused
C13_Witness ==
    /\ mlast.op = "put_back"
    /\ mlast.res = "WrongInstance"
    /\ ~mlast.slot_empty
    /\ fdcan[mlast.instance] # NoChannel

(***************************************************************************)
(* C14: a fallible operation that consumes a channel value hands the       *)
(* channel back with the error, so no channel is ever lost: every channel  *)
(* made by new is held by the caller or sits in a slot of the manager.     *)
(***************************************************************************)
C14_OwnershipNeverLost ==
    \A c \in Channels :
      c.origin = 1
        => \/ held[c] > 0
           \/ \E i \in FdCanInstance : fdcan[i] = c

(***************************************************************************)
(* C15: a Config-exit transition to an operating mode returns the channel  *)
(* tagged with the destination mode if and only if INIT was read cleared   *)
(* within the short budget (within its first max(budget, 1) reads);        *)
(* otherwise it returns the channel still tagged ConfigMode with Timeout.  *)
(***************************************************************************)
ExitOps ==
    { "into_internal_loopback", "into_external_loopback", "into_restricted",
      "into_normal", "into_bus_monitoring", "into_test_mode" }

DestOf(op) ==
    CASE op = "into_internal_loopback" -> "InternalLoopbackMode"
      [] op = "into_external_loopback" -> "ExternalLoopbackMode"
      [] op = "into_restricted" -> "RestrictedOperationMode"
      [] op = "into_normal" -> "NormalOperationMode"
      [] op = "into_bus_monitoring" -> "BusMonitoringMode"
      [] op = "into_test_mode" -> "TestMode"

Max(a, b) == IF a >= b THEN a ELSE b

\* the polled condition is read false within the budget
Acknowledged(f, budget) ==
    \E k \in 1..Max(budget, 1) : ~cond_at(f, k)

C15_ExitIffAcknowledged ==
    clast.op \in ExitOps
      => IF Acknowledged(clast.f, config.timeout_iterations_short)
         THEN clast.res = "Ok" /\ mode = DestOf(clast.op)
         ELSE clast.res = "Timeout" /\ mode = "ConfigMode"

\* the hardware cleared INIT at the third read, after the budget of two
\* reads was used up
C15_Witness ==
    /\ clast.op = "into_normal"
    /\ clast.f = << TRUE, TRUE, FALSE >>
    /\ config.timeout_iterations_short = 2
    /\ clast.res = "Timeout"
    /\ mode = "ConfigMode"

(***************************************************************************)
(* C16: into_config_mode fails with CoreCommunicationFailed when ENDN is   *)
(* not the sentinel, and otherwise with UnsupportedCoreVersion when the    *)
(* core release is not the expected one; in both cases no register and no  *)
(* message RAM word is written and the channel stays PoweredDown.          *)
(***************************************************************************)
C16_CoreChecksFirst ==
    [][ clast'.op = "into_config_mode"
          => /\ can.endn # ENDN_SENTINEL
                  => clast'.res = "CoreCommunicationFailed"
             /\ (can.endn = ENDN_SENTINEL /\ can.crel # CREL_REL)
                  => clast'.res = "UnsupportedCoreVersion"
             /\ (can.endn # ENDN_SENTINEL \/ can.crel # CREL_REL)
                  => /\ clast'.log = << >>
                     /\ can' = can
                     /\ ram' = ram
                     /\ layout_regs' = layout_regs
                     /\ mode' = "PoweredDownMode" ]_vars

\* the core release was refused, the sentinel being right
C16_Witness ==
    /\ clast.op = "into_config_mode"
    /\ clast.res = "UnsupportedCoreVersion"
    /\ can.endn = ENDN_SENTINEL
    /\ mode = "PoweredDownMode"

(***************************************************************************)
(* C17: a successful into_config_mode clears the clock-stop request and    *)
(* reads its acknowledgement deasserted (long budget), requests init and   *)
(* reads it acknowledged (short budget), then writes zero to every word of *)
(* the message RAM, in this order; when a poll times out no RAM word is    *)
(* written and Timeout comes back with the PoweredDown channel.            *)
(***************************************************************************)
C17_ConfigEntryOrder ==
    clast.op = "into_config_mode"
      => /\ clast.res = "Ok"
              => /\ Len(clast.log) = 6
                 /\ clast.log[1] = Write("csr", FALSE)
                 /\ clast.log[2].ev = "poll" /\ clast.log[2].reg = "csa"
                 /\ clast.log[2].ok /\ ~clast.log[2].val
                 /\ clast.log[2].budget = config.timeout_iterations_long
                 /\ clast.log[3] = Write("init", TRUE)
                 /\ clast.log[4].ev = "poll" /\ clast.log[4].reg = "init"
                 /\ clast.log[4].ok /\ clast.log[4].val
                 /\ clast.log[4].budget = config.timeout_iterations_short
                 /\ clast.log[5] = Write("cce", TRUE)
                 /\ clast.log[6].ev = "zero"
                 /\ clast.log[6].n = FDCAN_MSGRAM_LEN_WORDS
                 /\ \A a \in RamSample : ~ram[a]
                 /\ mode = "ConfigMode"
         /\ clast.res = "Timeout"
              => /\ \A k \in 1..Len(clast.log) : clast.log[k].ev # "zero"
                 /\ \E k \in 1..Len(clast.log) :
                      clast.log[k].ev = "poll" /\ ~clast.log[k].ok
                 /\ mode = "PoweredDownMode"

\* the clock-stop acknowledgement went away at the third read and the
\* transition succeeded
C17_Witness ==
    /\ clast.op = "into_config_mode"
    /\ clast.res = "Ok"
    /\ clast.log[2].n = 3
    /\ mode = "ConfigMode"

(***************************************************************************)
(* C18: checked_wait(cond, N) evaluates cond at least once and at most     *)
(* max(N, 1) times, returns Ok at the first evaluation that is false and   *)
(* Timeout once max(N, 1) evaluations were true.                           *)
(***************************************************************************)
C18_CheckedWaitBounded ==
    wait_out # NoWait
      => LET cap == Max(wait_in.timeout_iterations, 1)
             e == wait_out.evals
         IN  /\ e \in 1..cap
             /\ \A k \in 1..(e - 1) : cond_at(wait_in.f, k)
             /\ wait_out.res \in {"Ok", "Timeout"}
             /\ wait_out.res = "Ok" <=> ~cond_at(wait_in.f, e)
             /\ wait_out.res = "Timeout" => e = cap

\* a budget of zero: Timeout after a single evaluation
C18_Witness ==
    /\ wait_in.timeout_iterations = 0
    /\ wait_out.res = "Timeout"
    /\ wait_out.evals = 1

(***************************************************************************)
(* C19: a second successful entry into Config leaves the channel as the    *)
(* first one did: the whole message RAM is zero and no layout is applied,  *)
(* the layout having to be applied again.                                  *)
(***************************************************************************)
C19_SecondConfigEntryLikeFirst ==
    (clast.op = "into_config_mode" /\ clast.res = "Ok" /\ entries = 2)
      => /\ \A a \in RamSample : ~ram[a]
         /\ config.layout = MessageRamLayout_default
         /\ layout_regs = MessageRamLayout_default

(***************************************************************************)
(* C20: write_tx_buffer_pend and abort called on a channel with a          *)
(* TxBufferIdx of another instance return WrongInstance, whether or not    *)
(* the index is in the range of the channel's layout, and change no        *)
(* message RAM word and no request bit.                                    *)
(***************************************************************************)
C20_ForeignIdxRejected ==
    [][ (tlast'.op \in {"write_tx_buffer_pend", "abort"}
           /\ tlast'.idx.instance # txch.instance)
          => /\ tlast'.res = "WrongInstance"
             /\ tx_ram' = tx_ram
             /\ txregs' = txregs ]_vars

\* abort with another instance's index whose slot number has a request
\* pending on this channel
C20_Witness ==
    /\ tlast.op = "abort"
    /\ tlast.idx.instance # txch.instance
    /\ tlast.idx.idx \in txregs.txbrp
    /\ tlast.res = "WrongInstance"

(***************************************************************************)
(* C21: when write_tx_buffer_pend returns WrongInstance,                   *)
(* TxBufferIndexOutOfRange or WrongDataSize, no message RAM word was       *)
(* written and no request bit was set: the channel is as before the call.  *)
(***************************************************************************)
C21_FailedWriteChangesNothing ==
    [][ (tlast'.op = "write_tx_buffer_pend"
           /\ tlast'.res \in { "WrongInstance", "TxBufferIndexOutOfRange",
                               "WrongDataSize" })
          => /\ tx_ram' = tx_ram
             /\ txregs' = txregs
             /\ txch' = txch ]_vars

\* a payload of 12 bytes refused by a buffer of 8 bytes, the index being
\* valid and another request pending
C21_Witness ==
    /\ tlast.op = "write_tx_buffer_pend"
    /\ tlast.res = "WrongDataSize"
    /\ tlast.len = 12
    /\ tx_buffer_result(tlast.idx) = "Ok"
    /\ txregs.txbrp # {}

(***************************************************************************)
(* C22: with a valid index, write_tx_buffer_pend accepts every payload     *)
(* whose length is at most the TX data field size of the channel and       *)
(* returns WrongDataSize only for longer ones; a payload of 10 bytes is    *)
(* accepted by a data field of 16 bytes.                                   *)
(***************************************************************************)
C22_LengthsUpToFieldSizeAccepted ==
    (tlast.op = "write_tx_buffer_pend" /\ tx_buffer_result(tlast.idx) = "Ok")
      => /\ tlast.len <= max_len(txch.layout.tx_buffers_data_size)
              => tlast.res = "Ok"
         /\ tlast.len > max_len(txch.layout.tx_buffers_data_size)
              => tlast.res = "WrongDataSize"

(***************************************************************************)
(* C23: abort of a buffer whose transmission request is pending and whose  *)
(* frame the core has not transmitted returns Ok(true); abort of a buffer  *)
(* without a pending request returns Ok(false) and writes no register.     *)
(***************************************************************************)
C23_AbortOfPendingReturnsTrue ==
    [][ (tlast'.op = "abort" /\ tlast'.idx.instance = txch.instance)
          => /\ (has_pending_frame(tlast'.idx)
                   /\ tlast'.idx.idx \notin txregs'.txbto)
                  => tlast'.res = "Ok" /\ tlast'.val
             /\ ~has_pending_frame(tlast'.idx)
                  => /\ tlast'.res = "Ok"
                     /\ ~tlast'.val
                     /\ txregs' = txregs ]_vars

(***************************************************************************)
(* C24 (as the claim states it): programming the nominal timing            *)
(* {prescaler 1, seg1 11, seg2 4, sjw 4} leaves the NBTP fields            *)
(* {nbrp 0, ntseg1 11, ntseg2 3, nsjw 3}.                                  *)
(***************************************************************************)
C24_DefaultTimingFieldsAsClaimed ==
    (btlast.op = "set_nominal_bit_timing"
       /\ btlast.nbtr = NominalBitTiming_default)
      => btp.nbtp = [ nbrp |-> 0, ntseg1 |-> 11, ntseg2 |-> 3, nsjw |-> 3 ]

(***************************************************************************)
(* C24 (amended): programming the nominal timing {prescaler 1, seg1 11,    *)
(* seg2 4, sjw 4} succeeds and leaves the NBTP fields {nbrp 0, ntseg1 10,  *)
(* ntseg2 3, nsjw 3}: every field is the stored value minus one.           *)
(***************************************************************************)
C24_DefaultTimingFields ==
    (btlast.op = "set_nominal_bit_timing"
       /\ btlast.nbtr = NominalBitTiming_default)
      => /\ btlast.res = "Ok"
         /\ btr.nbtr = NominalBitTiming_default
         /\ btp.nbtp = [ nbrp |-> 0, ntseg1 |-> 10, ntseg2 |-> 3,
                         nsjw |-> 3 ]

\* the default timing programmed over another one
C24_Witness ==
    /\ btlast.op = "set_nominal_bit_timing"
    /\ btlast.nbtr = NominalBitTiming_default
    /\ btr.dbtr # DataBitTiming_default
    /\ btp.nbtp.ntseg1 = 10

(***************************************************************************)
(* C25: for every nominal and data bit timing whose fields are inside the  *)
(* documented ranges, the setter completes and every hardware field holds  *)
(* the stored value minus one.                                             *)
(***************************************************************************)
C25_FieldsAreStoredMinusOne ==
    /\ btlast.op = "set_nominal_bit_timing"
         => /\ btlast.res = "Ok"
            /\ btp.nbtp = [ nbrp |-> btlast.nbtr.prescaler - 1,
                            ntseg1 |-> btlast.nbtr.seg1 - 1,
                            ntseg2 |-> btlast.nbtr.seg2 - 1,
                            nsjw |-> btlast.nbtr.sync_jump_width - 1 ]
    /\ btlast.op = "set_data_bit_timing"
         => /\ btlast.res = "Ok"
            /\ btp.dbtp = [ dbrp |-> btlast.dbtr.prescaler - 1,
                            dtseg1 |-> btlast.dbtr.seg1 - 1,
                            dtseg2 |-> btlast.dbtr.seg2 - 1,
                            dsjw |-> btlast.dbtr.sync_jump_width - 1 ]

(***************************************************************************)
(* C26: decoding the 3-bit code of a DataFieldSize gives the size back,    *)
(* for all 8 sizes; the codes lie in 0..7, different sizes have different  *)
(* codes and a larger size has a larger code.                              *)
(***************************************************************************)
C26_DataFieldSizeRoundTrip ==
    rxesc_written
      => /\ rxesc.rbds \in 0..7 /\ rxesc.f0ds \in 0..7 /\ rxesc.f1ds \in 0..7
         /\ decode(rxesc.rbds) = ds_layout.rx_buffers_data_size
         /\ decode(rxesc.f0ds) = ds_layout.rx_fifo0_data_size
         /\ decode(rxesc.f1ds) = ds_layout.rx_fifo1_data_size
         /\ ds_layout.rx_buffers_data_size < ds_layout.rx_fifo0_data_size
              <=> rxesc.rbds < rxesc.f0ds
         /\ ds_layout.rx_buffers_data_size = ds_layout.rx_fifo0_data_size
              <=> rxesc.rbds = rxesc.f0ds

\* the extreme sizes and two neighbours encoded in one register
C26_Witness ==
    /\ rxesc_written
    /\ ds_layout.rx_buffers_data_size = 32
    /\ ds_layout.rx_fifo0_data_size = 48
    /\ ds_layout.rx_fifo1_data_size = 64
    /\ rxesc = [ rbds |-> 5, f0ds |-> 6, f1ds |-> 7 ]

(***************************************************************************)
(* C27: on_interrupt for an instance wakes the waker of that instance if   *)
(* and only if the receive-on-dedicated-buffer flag is set in the status   *)
(* it read, leaves no status flag of the instance pending, and neither     *)
(* wakes the waker nor touches the status of any other instance.           *)
(***************************************************************************)
C27_WakeIffDrx ==
    [][ ilast'.op = "on_interrupt"
          => LET i == ilast'.instance
             IN  /\ ilast'.read = ir[i]
                 /\ wakes'[i] = wakes[i] + 1 <=> DRX \in ir[i]
                 /\ wakes'[i] = wakes[i] <=> DRX \notin ir[i]
                 /\ ilast'.woken \subseteq { i }
                 /\ ir'[i] = {}
                 /\ \A j \in FdCanInstance \ { i } :
                      wakes'[j] = wakes[j] /\ ir'[j] = ir[j] ]_vars

\* the handler of FdCan2 ran with DRX and another flag pending while DRX
\* was pending on FdCan1 too: only FdCan2 was woken
C27_Witness ==
    /\ ilast.op = "on_interrupt"
    /\ ilast.instance = "FdCan2"
    /\ ilast.read = { DRX, ARA }
    /\ DRX \in ir["FdCan1"]
    /\ wakes = [ i \in FdCanInstance |-> IF i = "FdCan2" THEN 1 ELSE 0 ]

(***************************************************************************)
(* C28: when a transmission request is pending for the buffer, abort does  *)
(* not return Ok before the core has set the buffer's cancellation         *)
(* finished bit, and it returns Timeout when the bit is not set within     *)
(* the long budget.                                                        *)
(***************************************************************************)
C28_AbortWaitsForCancellation ==
    [][ (tlast'.op = "abort" /\ tlast'.idx.instance = txch.instance
           /\ has_pending_frame(tlast'.idx))
          => /\ tlast'.res = "Ok" => tlast'.idx.idx \in txregs'.txbcf
             /\ tlast'.idx.idx \notin txregs'.txbcf
                  => tlast'.res = "Timeout" ]_vars

(***************************************************************************)
(* C29: every Config-exit transition to an operating mode first writes     *)
(* mode-select bits, then rewrites the whole cached configuration, in the  *)
(* order of apply_config and whatever its values, then clears the          *)
(* configuration write enable bit, then clears INIT, then polls INIT with  *)
(* the short budget; nothing but INIT is written after the write enable    *)
(* bit was cleared.                                                        *)
(***************************************************************************)
ModeSelectBits == { "test", "mon", "asm", "lbck" }

C29_ExitOrder ==
    clast.op \in ExitOps
      => LET log == clast.log
             n == Len(log)
             a == Len(ApplyConfig)
             m == n - a - 3
         IN  /\ m >= 1
             /\ \A k \in 1..m :
                  log[k].ev = "write" /\ log[k].reg \in ModeSelectBits
             /\ SubSeq(log, m + 1, m + a) =
                  << Config("dbtp"), Config("nbtp"), Config("cccr.dar"),
                     Config("cccr.txp"), Config("cccr.fdoe_bse"),
                     Config("ils"), Config("cccr.niso"), Config("cccr.efbi"),
                     Config("cccr.pxhd"), Config("gfc"), Config("layout") >>
             /\ log[n - 2] = Write("cce", FALSE)
             /\ log[n - 1] = Write("init", FALSE)
             /\ log[n].ev = "poll" /\ log[n].reg = "init"
             /\ log[n].budget = config.timeout_iterations_short
             /\ layout_regs = config.layout

\* an exit that timed out after a layout was set: the configuration was
\* rewritten all the same
C29_Witness ==
    /\ clast.op = "into_external_loopback"
    /\ clast.res = "Timeout"
    /\ config.layout = some_layout
    /\ Len(clast.log) = 17

(***************************************************************************)
(* C30: in an operating mode the mode-select bits TEST, MON, ASM and LBCK  *)
(* are exactly the ones the mode implies, also when an earlier exit        *)
(* towards another mode timed out.                                         *)
(***************************************************************************)
ImpliedBits(m) ==
    CASE m = "NormalOperationMode" ->
           [ test |-> FALSE, mon |-> FALSE, asm |-> FALSE, lbck |-> FALSE ]
      [] m = "InternalLoopbackMode" ->
           [ test |-> TRUE, mon |-> TRUE, asm |-> FALSE, lbck |-> TRUE ]
      [] m = "ExternalLoopbackMode" ->
           [ test |-> TRUE, mon |-> FALSE, asm |-> FALSE, lbck |-> TRUE ]
      [] m = "RestrictedOperationMode" ->
           [ test |-> FALSE, mon |-> FALSE, asm |-> TRUE, lbck |-> FALSE ]
      [] m = "BusMonitoringMode" ->
           [ test |-> FALSE, mon |-> TRUE, asm |-> FALSE, lbck |-> FALSE ]
      [] m = "TestMode" ->
           [ test |-> TRUE, mon |-> FALSE, asm |-> FALSE, lbck |-> FALSE ]

C30_ModeBitsAsImplied ==
    mode \in OperatingModes
      => [ test |-> can.test, mon |-> can.mon, asm |-> can.asm,
           lbck |-> can.lbck ] = ImpliedBits(mode)

\* C31: whenever the channel value is tagged Config, after a successful
\* into_config_mode and after a Config-exit transition that returned
\* Timeout alike, the INIT bit and the configuration-write-enable bit CCE
\* are set in the hardware.
C31_ConfigTagHasInitAndCce ==
    mode = "ConfigMode" => (can.init /\ can.cce)

\* C32: into_powered_down always returns a value tagged PoweredDownMode:
\* with Ok when both polls were answered within their budgets, and paired
\* with Timeout when the clock stop acknowledgement or the INIT poll after
\* it was not; it never returns a value tagged ConfigMode.
C32_PoweredDownTagAlways ==
    clast.op = "into_powered_down" =>
        /\ clast.from = "ConfigMode"
        /\ mode = "PoweredDownMode"
        /\ clast.res \in {"Ok", "Timeout"}
        /\ (clast.res = "Timeout") <=>
               (\E k \in 1..Len(clast.log) :
                   clast.log[k].ev = "poll" /\ ~clast.log[k].ok)

\* into_powered_down returned Timeout: once from the clock stop poll, so
\* that INIT is left set, or from the INIT poll
C32_Witness ==
    /\ clast.op = "into_powered_down"
    /\ clast.res = "Timeout"
    /\ mode = "PoweredDownMode"
    /\ Len(clast.log) = 2
    /\ can.init

\* C33: a take_enabled that finds the clock disabled, all channels present
\* and the selected clock source running asserts the peripheral reset,
\* then sets the clock enable, then waits the synchronization delay, then
\* deasserts the reset, and returns with the clock enabled and the reset
\* deasserted; when a check fails it writes nothing.
C33_EnableResetOrder ==
    [][ mlast'.op = "take_enabled" =>
          IF ~rcc.fdcanen /\ all_present /\ clock_source_running
          THEN /\ Len(mlast'.writes) = 4
               /\ mlast'.writes[1] = [ reg |-> "fdcanrst", val |-> TRUE ]
               /\ mlast'.writes[2] = [ reg |-> "fdcanen", val |-> TRUE ]
               /\ mlast'.writes[3] =
                      [ reg |-> "delay",
                        val |-> CLOCK_DOMAIN_SYNCHRONIZATION_DELAY ]
               /\ mlast'.writes[4] = [ reg |-> "fdcanrst", val |-> FALSE ]
               /\ mlast'.res = "Ok"
               /\ rcc'.fdcanen
               /\ ~rcc'.fdcanrst
          ELSE /\ mlast'.writes = << >>
               /\ rcc' = rcc ]_vars

\* take_enabled has enabled the clock and reset the peripheral
C33_Witness ==
    /\ mlast.op = "take_enabled"
    /\ ~mlast.is_enabled
    /\ Len(mlast.writes) = 4
    /\ mlast.res = "Ok"
    /\ rcc.fdcanen

\* C34: in every finalized layout tx_buffers_len is the number of dedicated
\* transmit buffers allocated in that pass and tx_fifo_or_queue_len the
\* FIFO/queue size, so that the two numbers set_layout programs into TXBC
\* (NDTB and TFQS) sum to at most 32.
C34_DedicatedPlusQueueAtMost32 ==
    /\ (last.op = "allocate_fifo_or_queue" /\ last.res = "Ok") =>
           /\ layout.tx_buffers_len = dedicated
           /\ layout.tx_fifo_or_queue_len = last.len
    /\ \A k \in 1..Len(layouts) :
           layouts[k].layout.tx_buffers_len
             + layouts[k].layout.tx_fifo_or_queue_len
               <= MAX_ELEMENTS_TxBuffers

\* the words of element idx of the TX buffer region: elements of two header
\* words and the data field, laid out from the start of the region
tx_slot_words(idx) ==
    LET size == 2 + words(txch.layout.tx_buffers_data_size)
        start == txch.layout.tx_buffers_addr + idx.idx * size
    IN  start..(start + size - 1)

\* C35: after a successful write_tx_buffer_pend for slot i every word it
\* wrote lies in the element range of slot i of the channel's TX buffer
\* region (region start + i x element size up to the next element), so
\* that writes to two slots share no word.
C35_WritesInsideSlot ==
    (tlast.op = "write_tx_buffer_pend" /\ tlast.res = "Ok") =>
        /\ write_tx_buffer_pend_words(tlast.idx, tlast.len) \subseteq tx_ram
        /\ write_tx_buffer_pend_words(tlast.idx, tlast.len)
             \subseteq tx_slot_words(tlast.idx)

\* C36: while channel A is in an operating mode, no call on another channel
\* B, its PoweredDown->Config transition included, changes a message RAM
\* word inside the regions of A's layout.
C36_NoCrossChannelRamChange ==
    [][ \A a \in SharedChannels :
          (chmode[a] \in OperatingModes /\ slast'.ch # a) =>
              \A w \in layout_words(shared_layout[a]) \cap SharedWords :
                  msgram'[w] = msgram[w] ]_vars

\* C37: a receive-on-dedicated-buffer flag the core sets between the status
\* read of on_interrupt and its clear-all write is not cleared without a
\* call of the wake primitive for it: the call wakes the waiter, or the
\* flag is still set when the call returns.
C37_NoFlagClearedWithoutWake ==
    (ilast.op = "on_interrupt" /\ DRX \in ilast.raised) =>
        \/ ilast.instance \in ilast.woken
        \/ DRX \in ir[ilast.instance]

\* C38: after any sequence of take_enabled and put_back calls every
\* occupied slot of FdCanInstances holds the channel whose instance is the
\* slot's, so that take_enabled(id) returns the channel id.
C38_SlotHoldsItsOwnChannel ==
    \A i \in FdCanInstance :
        fdcan[i] # NoChannel => fdcan[i].instance = i

\* C39: after a successful Config exit the value in effect in the hardware
\* for a field with a Config-mode setter is the one given by the most
\* recent setter call for that field; the cached configuration applied on
\* the exit does not put an older value in its place.
C39_LastSetterValueInEffect ==
    (setmode = "NormalOperationMode") =>
        /\ \A enabled \in given.automatic_retransmit :
               sethw.dar = ~enabled
        /\ \A enabled \in given.transmit_pause : sethw.txp = enabled
        /\ \A filter \in given.global_filter :
               /\ sethw.gfc.anfs
                    = NonMatchingFilter_u8(filter.handle_standard_frames)
               /\ sethw.gfc.rrfs = filter.reject_remote_standard_frames

\* C40: for every fifo_or_queue_len and every number of dedicated buffers
\* allocated before, the 8-bit sum of allocate_fifo_or_queue does not wrap:
\* the call does not panic, the length it checks is the true total, and a
\* total above 32 is rejected with TooManyElements.
C40_SumDoesNotWrap ==
    (last.op = "allocate_fifo_or_queue") =>
        /\ last.res # "Panic"
        /\ last.mlen = last.count
        /\ (last.count > MAX_ELEMENTS_TxBuffers) =>
               last.res = "TooManyElements"

====
